---------------------------- MODULE Spec2Model ----------------------------
(***************************************************************************)
(* Model of the translation extraction and reconciliation engine of       *)
(* Programas/extractor.py (class RimWorldTranslatorGUI).                   *)
(*                                                                         *)
(* Strings are sequences of one-character strings, so that strip, replace, *)
(* escape, split and the substring tests are computed as Python computes   *)
(* them.  A dict is a sequence of <<key, value>> pairs in insertion order, *)
(* as a Python dict keeps it.  A document (an output file) is the sequence *)
(* of the pieces the writer emits; reading it back is a parse that fails   *)
(* on a comment holding "--", drops the comments and unescapes the text.   *)
(***************************************************************************)
EXTENDS Integers, Sequences, FiniteSets, TLC

(***************************************************************************)
(* Characters and Python's str operations                                  *)
(***************************************************************************)

\* The printable ASCII characters in code point order, from code point 32
\* (the double quote, the backslash and the backtick, which the model never
\* uses, are named).
Ascii ==
  << " ", "!", "QUOTE", "#", "$", "%", "&", "'", "(", ")", "*", "+", ",", "-", ".", "/",
     "0", "1", "2", "3", "4", "5", "6", "7", "8", "9", ":", ";", "<", "=", ">", "?",
     "@", "A", "B", "C", "D", "E", "F", "G", "H", "I", "J", "K", "L", "M", "N", "O",
     "P", "Q", "R", "S", "T", "U", "V", "W", "X", "Y", "Z", "[", "BACKSLASH", "]", "^", "_",
     "BACKTICK", "a", "b", "c", "d", "e", "f", "g", "h", "i", "j", "k", "l", "m", "n", "o",
     "p", "q", "r", "s", "t", "u", "v", "w", "x", "y", "z", "{", "|", "}", "~" >>

\* ord(c) for the characters the model uses (a newline is code point 10).
CodePoint ==
  [c \in {Ascii[i] : i \in DOMAIN Ascii} \cup {"\n"} |->
     IF c = "\n" THEN 10 ELSE 31 + (CHOOSE i \in DOMAIN Ascii : Ascii[i] = c)]

\* chr(n) for a printable code point.
Chr(n) == Ascii[n - 31]

\* str.lower() and str.upper() on one character.
LowerChar(c) ==
  IF CodePoint[c] >= 65 /\ CodePoint[c] <= 90 THEN Chr(CodePoint[c] + 32) ELSE c

UpperChar(c) ==
  IF CodePoint[c] >= 97 /\ CodePoint[c] <= 122 THEN Chr(CodePoint[c] - 32) ELSE c

Lower(s) == [i \in DOMAIN s |-> LowerChar(s[i])]

Upper(s) == [i \in DOMAIN s |-> UpperChar(s[i])]

\* str.isalnum() on one character.
IsAlnum(c) ==
  \/ CodePoint[c] >= 48 /\ CodePoint[c] <= 57
  \/ CodePoint[c] >= 65 /\ CodePoint[c] <= 90
  \/ CodePoint[c] >= 97 /\ CodePoint[c] <= 122

\* The whitespace str.strip() removes.
IsSpace(c) == c \in {" ", "\n"}

RECURSIVE LStrip(_)
LStrip(s) == IF s # <<>> /\ IsSpace(Head(s)) THEN LStrip(Tail(s)) ELSE s

RECURSIVE RStrip(_)
RStrip(s) ==
  IF s # <<>> /\ IsSpace(s[Len(s)]) THEN RStrip(SubSeq(s, 1, Len(s) - 1)) ELSE s

\* str.strip()
Strip(s) == RStrip(LStrip(s))

\* s.startswith(p), s.endswith(p), p in s
StartsWith(s, p) == Len(p) <= Len(s) /\ SubSeq(s, 1, Len(p)) = p

EndsWith(s, p) == Len(p) <= Len(s) /\ SubSeq(s, Len(s) - Len(p) + 1, Len(s)) = p

Contains(s, p) == \E i \in 0..(Len(s) - Len(p)) : SubSeq(s, i + 1, i + Len(p)) = p

\* s.replace(old, new): every non-overlapping occurrence, left to right.
RECURSIVE Replace(_, _, _)
Replace(s, old, new) ==
  IF Len(s) < Len(old) \/ old = <<>> THEN s
  ELSE IF SubSeq(s, 1, Len(old)) = old
       THEN new \o Replace(SubSeq(s, Len(old) + 1, Len(s)), old, new)
       ELSE <<Head(s)>> \o Replace(Tail(s), old, new)

\* s.split('.'): the segments between the dots.
RECURSIVE SplitDot(_)
SplitDot(s) ==
  IF \A i \in DOMAIN s : s[i] # "." THEN <<s>>
  ELSE LET d == CHOOSE i \in DOMAIN s : s[i] = "." /\ \A j \in 1..(i - 1) : s[j] # "."
       IN  <<SubSeq(s, 1, d - 1)>> \o SplitDot(SubSeq(s, d + 1, Len(s)))

\* '.'.join(parts)
RECURSIVE JoinDot(_)
JoinDot(parts) ==
  IF parts = <<>> THEN <<>>
  ELSE IF Len(parts) = 1 THEN parts[1]
  ELSE parts[1] \o <<".">> \o JoinDot(Tail(parts))

\* str(n) for a natural number.
RECURSIVE Digits(_)
Digits(n) == IF n < 10 THEN <<Chr(48 + n)>> ELSE Digits(n \div 10) \o <<Chr(48 + (n % 10))>>

\* Python's < on strings: lexicographic by code point.
RECURSIVE StrLess(_, _)
StrLess(a, b) ==
  IF b = <<>> THEN FALSE
  ELSE IF a = <<>> THEN TRUE
  ELSE IF Head(a) = Head(b) THEN StrLess(Tail(a), Tail(b))
  ELSE CodePoint[Head(a)] < CodePoint[Head(b)]

\* xml.sax.saxutils.escape: & first, then < and >.
RECURSIVE Escape(_)
Escape(s) ==
  IF s = <<>> THEN <<>>
  ELSE (CASE Head(s) = "&" -> <<"&", "a", "m", "p", ";">>
          [] Head(s) = "<" -> <<"&", "l", "t", ";">>
          [] Head(s) = ">" -> <<"&", "g", "t", ";">>
          [] OTHER -> <<Head(s)>>) \o Escape(Tail(s))

\* The character data the XML parser returns for escaped text.
RECURSIVE Unescape(_)
Unescape(s) ==
  IF s = <<>> THEN <<>>
  ELSE IF StartsWith(s, <<"&", "a", "m", "p", ";">>)
       THEN <<"&">> \o Unescape(SubSeq(s, 6, Len(s)))
  ELSE IF StartsWith(s, <<"&", "l", "t", ";">>)
       THEN <<"<">> \o Unescape(SubSeq(s, 5, Len(s)))
  ELSE IF StartsWith(s, <<"&", "g", "t", ";">>)
       THEN <<">">> \o Unescape(SubSeq(s, 5, Len(s)))
  ELSE <<Head(s)>> \o Unescape(Tail(s))

(***************************************************************************)
(* Python dicts: sequences of <<key, value>> pairs, insertion ordered      *)
(***************************************************************************)

DictHas(d, k) == \E i \in DOMAIN d : d[i][1] = k

DictGet(d, k, default) ==
  IF DictHas(d, k) THEN d[CHOOSE i \in DOMAIN d : d[i][1] = k][2] ELSE default

\* d[k] = v: a present key keeps its place, a new key goes last.
DictSet(d, k, v) ==
  IF DictHas(d, k) THEN [i \in DOMAIN d |-> IF d[i][1] = k THEN <<k, v>> ELSE d[i]]
  ELSE Append(d, <<k, v>>)

DictKeys(d) == {d[i][1] : i \in DOMAIN d}


(***************************************************************************)
(* String literals of the program                                          *)
(***************************************************************************)

S_TODO == <<"T", "O", "D", "O">>

S_Implicit ==
  <<"(", "I", "m", "p", "l", "i", "c", "i", "t", "/",
    "I", "n", "h", "e", "r", "i", "t", "e", "d", ")">>

S_Backstory == <<"B", "a", "c", "k", "s", "t", "o", "r", "y">>

S_baseDesc == <<"b", "a", "s", "e", "D", "e", "s", "c">>

S_description == <<"d", "e", "s", "c", "r", "i", "p", "t", "i", "o", "n">>

S_label == <<"l", "a", "b", "e", "l">>

S_title == <<"t", "i", "t", "l", "e">>

S_titleShort == <<"t", "i", "t", "l", "e", "S", "h", "o", "r", "t">>

S_deathMessage == <<"d", "e", "a", "t", "h", "M", "e", "s", "s", "a", "g", "e">>

S_endMessage == <<"e", "n", "d", "M", "e", "s", "s", "a", "g", "e">>

S_Generado == <<"G", "e", "n", "e", "r", "a", "d", "o">>

S_Actualizado == <<"A", "c", "t", "u", "a", "l", "i", "z", "a", "d", "o">>

Dot(s) == <<".">> \o s

(***************************************************************************)
(* Documents: what the writer emits and what the XML parser reads back     *)
(***************************************************************************)

\* The pieces of a written document, in file order:
\*   "en"     the comment <!-- EN: text -->
\*   "elem"   the element <key>text</key> (text as written, that is escaped)
\*   "blank"  the empty line between two definitions
\*   "marker" the comment <!-- INUTILIZADO -->
\*   "dead"   the comment <!-- <key>text</key> -->
EnItem(text) == [t |-> "en", key |-> <<>>, text |-> text]

ElemItem(key, text) == [t |-> "elem", key |-> key, text |-> text]

BlankItem == [t |-> "blank", key |-> <<>>, text |-> <<>>]

MarkerItem == [t |-> "marker", key |-> <<>>, text |-> <<>>]

DeadItem(key, text) == [t |-> "dead", key |-> key, text |-> text]

NoFile == [exists |-> FALSE, items |-> <<>>]

FileOf(items) == [exists |-> TRUE, items |-> items]

\* The text between <!-- and --> of a comment piece.
CommentBody(it) ==
  CASE it.t = "en" -> <<" ", "E", "N", ":", " ">> \o it.text \o <<" ">>
    [] it.t = "dead" ->
         <<" ", "<">> \o it.key \o <<">">> \o it.text \o <<"<", "/">> \o it.key
           \o <<">", " ">>
    [] OTHER -> <<" ", "I", "N", "U", "T", "I", "L", "I", "Z", "A", "D", "O", " ">>

\* Character data is well-formed when it has no raw < and every & starts one of
\* the entities the writer's escape produces.
RECURSIVE WellFormedText(_)
WellFormedText(s) ==
  IF s = <<>> THEN TRUE
  ELSE IF Head(s) = "<" THEN FALSE
  ELSE IF Head(s) = "&"
       THEN IF StartsWith(s, <<"&", "a", "m", "p", ";">>)
            THEN WellFormedText(SubSeq(s, 6, Len(s)))
            ELSE IF StartsWith(s, <<"&", "l", "t", ";">>)
                    \/ StartsWith(s, <<"&", "g", "t", ";">>)
                 THEN WellFormedText(SubSeq(s, 5, Len(s)))
                 ELSE FALSE
  ELSE WellFormedText(Tail(s))

\* expat rejects a comment that holds "--" ("not well-formed (invalid token)").
WellFormedItem(it) ==
  CASE it.t \in {"en", "dead", "marker"} -> ~Contains(CommentBody(it), <<"-", "-">>)
    [] it.t = "elem" -> it.key # <<>> /\ WellFormedText(it.text)
    [] OTHER -> TRUE

\* ET.parse(file) succeeds.
Parses(file) == file.exists /\ \A i \in DOMAIN file.items : WellFormedItem(file.items[i])

\* The children of the root the parser yields, as <<tag, text>>, in document
\* order: comments are dropped, entities are resolved.
RECURSIVE RootChildren(_)
RootChildren(items) ==
  IF items = <<>> THEN <<>>
  ELSE IF Head(items).t = "elem"
       THEN <<<<Head(items).key, Unescape(Head(items).text)>>>> \o RootChildren(Tail(items))
       ELSE RootChildren(Tail(items))

(***************************************************************************)
(* Archive Index Builder                                                   *)
(***************************************************************************)

\* An index builder that drops the empty values only.
RECURSIVE IndexChildren_Keeping(_, _)
IndexChildren_Keeping(d, children) ==
  IF children = <<>> THEN d
  ELSE LET tag == Head(children)[1]
           raw == Head(children)[2]
           text == Strip(raw)
       IN  IF tag # <<>> /\ raw # <<>> /\ text # <<>>
           THEN IndexChildren_Keeping(DictSet(d, tag, text), Tail(children))
           ELSE IndexChildren_Keeping(d, Tail(children))

\* The loop body shared by load_archive_translations and
\* load_single_xml_translations: strip, drop the empty and the TODO values.
RECURSIVE IndexChildren(_, _)
IndexChildren(d, children) ==
  IF children = <<>> THEN d
  ELSE LET tag == Head(children)[1]
           raw == Head(children)[2]
           text == Strip(raw)
       IN  IF tag # <<>> /\ raw # <<>> /\ text # <<>> /\ Upper(text) # S_TODO
           THEN IndexChildren(DictSet(d, tag, text), Tail(children))
           ELSE IndexChildren(d, Tail(children))

\* load_single_xml_translations(file_path): a file that does not parse gives {}.
load_single_xml_translations(file) ==
  IF Parses(file) THEN IndexChildren(<<>>, RootChildren(file.items)) ELSE <<>>

\* load_archive_translations(archive_path): every file of the tree into one
\* dict, a file that does not parse being skipped.
RECURSIVE load_archive_translations(_)
load_archive_translations(files) ==
  IF files = <<>> THEN <<>>
  ELSE LET d == load_archive_translations(SubSeq(files, 1, Len(files) - 1))
           f == files[Len(files)]
       IN  IF Parses(f) THEN IndexChildren(d, RootChildren(f.items)) ELSE d

(***************************************************************************)
(* Translation Merger and Output Writer                                    *)
(***************************************************************************)

\* An entry of the fresh derivation: {'key': ..., 'value': ...}.
Entry(key, value) == [key |-> key, value |-> value]

EntryKeys(entries) == {entries[i].key : i \in DOMAIN entries}

\* key.split('.')[0] if '.' in key else key
DefOf(key) == SplitDot(key)[1]

\* '.'.join(parts[1:]) if '.' in key else ""
FieldOf(key) == JoinDot(Tail(SplitDot(key)))

\* The entries recover-implicit adds: one per archive key with a dot whose
\* definition is present and that is not itself a fresh key.
RECURSIVE ExtraEntries(_, _, _)
ExtraEntries(archive, entries, english) ==
  IF archive = <<>> THEN <<>>
  ELSE LET arch_key == Head(archive)[1]
           rest == ExtraEntries(Tail(archive), entries, english)
       IN  IF /\ Contains(arch_key, <<".">>)
              /\ DefOf(arch_key) \in {DefOf(k) : k \in EntryKeys(entries)}
              /\ arch_key \notin EntryKeys(entries)
           THEN <<Entry(arch_key, DictGet(english, arch_key, S_Implicit))>> \o rest
           ELSE rest

\* A rename step that leaves every key as it is.
Processed_NoRename(entry, is_backstory) ==
  [key |-> entry.key, value |-> entry.value, def_name |-> DefOf(entry.key),
   field |-> FieldOf(entry.key)]

\* The Backstory rename of one entry, with its def_name and field.
Processed(entry, is_backstory) ==
  LET def_name == DefOf(entry.key)
      field == FieldOf(entry.key)
      renamed == is_backstory /\ field = S_baseDesc
  IN  [key |-> IF renamed THEN def_name \o Dot(S_description) ELSE entry.key,
       value |-> entry.value,
       def_name |-> def_name,
       field |-> IF renamed THEN S_description ELSE field]

\* The field priority table of the sort key.
FieldPriority(field) ==
  CASE field = S_label -> 1
    [] field = S_description -> 2
    [] field = S_title -> 3
    [] field = S_titleShort -> 4
    [] field = S_baseDesc -> 5
    [] field = S_deathMessage -> 6
    [] field = S_endMessage -> 7
    [] OTHER -> 99

\* A comparison by definition name alone.
SortKeyLess_ByName(a, b) == StrLess(a.def_name, b.def_name)

\* The sort key (def_name, priority) of a compared with that of b.
SortKeyLess(a, b) ==
  \/ StrLess(a.def_name, b.def_name)
  \/ a.def_name = b.def_name /\ FieldPriority(a.field) < FieldPriority(b.field)

\* list.sort(key=...): stable.
RECURSIVE SortEntries(_)
SortEntries(entries) ==
  IF entries = <<>> THEN <<>>
  ELSE LET sorted == SortEntries(SubSeq(entries, 1, Len(entries) - 1))
           e == entries[Len(entries)]
           n == Cardinality({i \in DOMAIN sorted : ~SortKeyLess(e, sorted[i])})
       IN  SubSeq(sorted, 1, n) \o <<e>> \o SubSeq(sorted, n + 1, Len(sorted))

\* A writer that recovers implicit keys whether the option is on or off.
ProcessedEntries_AlwaysRecover(entries, def_type, archive, english, recover_implicit) ==
  LET all == entries \o ExtraEntries(archive, entries, english)
  IN  SortEntries([i \in DOMAIN all |-> Processed(all[i], Contains(def_type, S_Backstory))])

\* The entries save_translations writes: fresh, plus the implicit ones,
\* renamed and sorted.
ProcessedEntries(entries, def_type, archive, english, recover_implicit) ==
  LET all == IF recover_implicit
             THEN entries \o ExtraEntries(archive, entries, english)
             ELSE entries
  IN  SortEntries([i \in DOMAIN all |-> Processed(all[i], Contains(def_type, S_Backstory))])

\* existing_translations of save_translations: the values are stripped.
RECURSIVE ExistingStripped(_, _)
ExistingStripped(d, children) ==
  IF children = <<>> THEN d
  ELSE IF Head(children)[1] # <<>> /\ Head(children)[2] # <<>>
       THEN ExistingStripped(DictSet(d, Head(children)[1], Strip(Head(children)[2])),
                             Tail(children))
       ELSE ExistingStripped(d, Tail(children))

ReadExistingDefInjected(file) ==
  IF Parses(file) THEN ExistingStripped(<<>>, RootChildren(file.items)) ELSE <<>>

\* existing_translations of save_keyed_translations: the values are kept as read.
RECURSIVE ExistingRaw(_, _)
ExistingRaw(d, children) ==
  IF children = <<>> THEN d
  ELSE IF Head(children)[1] # <<>> /\ Head(children)[2] # <<>>
       THEN ExistingRaw(DictSet(d, Head(children)[1], Head(children)[2]), Tail(children))
       ELSE ExistingRaw(d, Tail(children))

ReadExistingKeyed(file) ==
  IF Parses(file) THEN ExistingRaw(<<>>, RootChildren(file.items)) ELSE <<>>

\* The synonym fallbacks, in the order of the elif chain: <<suffix, replacement>>.
Synonyms ==
  << <<Dot(S_baseDesc), Dot(S_description)>>,
     <<Dot(S_description), Dot(S_baseDesc)>>,
     <<Dot(S_title), Dot(S_label)>>,
     <<Dot(S_label), Dot(S_title)>> >>

\* The first synonym branch that applies to key, 0 when none does.
SynonymBranch(key, archive) ==
  LET hits == {i \in DOMAIN Synonyms :
                 /\ EndsWith(key, Synonyms[i][1])
                 /\ DictHas(archive, Replace(key, Synonyms[i][1], Synonyms[i][2]))}
  IN  IF hits = {} THEN 0 ELSE CHOOSE i \in hits : \A j \in hits : i <= j

\* val_to_write of save_translations, before escaping.
ResolveDefInjected(key, existing, local, archive) ==
  LET val == DictGet(existing, key, S_TODO)
  IN  IF val = S_TODO \/ val = <<>>
      THEN IF DictHas(local, key) THEN DictGet(local, key, val)
           ELSE IF DictHas(archive, key) THEN DictGet(archive, key, val)
           ELSE IF SynonymBranch(key, archive) # 0
                THEN LET syn == Synonyms[SynonymBranch(key, archive)]
                     IN  DictGet(archive, Replace(key, syn[1], syn[2]), val)
           ELSE val
      ELSE val

\* A keyed resolver that takes the global archive's value before the local one.
ResolveKeyed_GlobalFirst(key, existing, local, archive) ==
  LET val == DictGet(existing, key, S_TODO)
  IN  IF (val = S_TODO \/ val = <<>>) /\ DictHas(archive, key)
      THEN DictGet(archive, key, val)
      ELSE val

\* val_to_write of save_keyed_translations, before escaping: the archive is
\* consulted only when the global archive has the key.
ResolveKeyed(key, existing, local, archive) ==
  LET val == DictGet(existing, key, S_TODO)
  IN  IF (val = S_TODO \/ val = <<>>) /\ DictHas(archive, key)
      THEN IF DictHas(local, key) THEN DictGet(local, key, val)
           ELSE DictGet(archive, key, val)
      ELSE val

\* The text put in the EN comment.
OriginalText(value) == Replace(value, <<"-", "-">>, <<"-", " ", "-">>)

\* The live part of a DefInjected document: per entry an empty line when the
\* definition changes, the EN comment and the element.
RECURSIVE LiveDefInjected(_, _, _, _, _)
LiveDefInjected(entries, last_def, existing, local, archive) ==
  IF entries = <<>> THEN <<>>
  ELSE LET entry == Head(entries)
           current_def == DefOf(entry.key)
           val == Escape(ResolveDefInjected(entry.key, existing, local, archive))
       IN  (IF last_def # <<>> /\ current_def # last_def THEN <<BlankItem>> ELSE <<>>)
           \o <<EnItem(OriginalText(entry.value)), ElemItem(entry.key, val)>>
           \o LiveDefInjected(Tail(entries), current_def, existing, local, archive)

\* The INUTILIZADO section: the existing keys not used, in the order of the dict.
RECURSIVE DeadItems(_, _)
DeadItems(existing, used_keys) ==
  IF existing = <<>> THEN <<>>
  ELSE (IF Head(existing)[1] \notin used_keys
        THEN <<DeadItem(Head(existing)[1], Head(existing)[2])>>
        ELSE <<>>) \o DeadItems(Tail(existing), used_keys)

\* A writer that deletes the unused keys instead of disabling them.
UnusedSection_Deleted(existing, used_keys) == <<>>

UnusedSection(existing, used_keys) ==
  IF DictKeys(existing) \subseteq used_keys THEN <<>>
  ELSE <<MarkerItem>> \o DeadItems(existing, used_keys)

\* The action reported for the file.
ActionOf(existing) == IF existing # <<>> THEN S_Actualizado ELSE S_Generado

\* A writer that shows the archive's text as the source text of a key the
\* archive has.
SaveDefType_ArchiveText(entries, def_type, file, local, archive, english, recover_implicit) ==
  LET processed == ProcessedEntries(entries, def_type, archive, english, recover_implicit)
      shown == [i \in DOMAIN processed |->
                  Entry(processed[i].key,
                        DictGet(archive, processed[i].key, processed[i].value))]
      existing == ReadExistingDefInjected(file)
  IN  [file |-> FileOf(LiveDefInjected(shown, <<>>, existing, local, archive)
                       \o UnusedSection(existing, EntryKeys(processed))),
       action |-> ActionOf(existing)]

\* The body of the loop of save_translations, for one definition type: the
\* document written and the action logged.
SaveDefType(entries, def_type, file, local, archive, english, recover_implicit) ==
  LET processed == ProcessedEntries(entries, def_type, archive, english, recover_implicit)
      existing == ReadExistingDefInjected(file)
  IN  [file |-> FileOf(LiveDefInjected(processed, <<>>, existing, local, archive)
                       \o UnusedSection(existing, EntryKeys(processed))),
       action |-> ActionOf(existing)]

\* The live part of a Keyed document.
RECURSIVE LiveKeyed(_, _, _, _)
LiveKeyed(entries, existing, local, archive) ==
  IF entries = <<>> THEN <<>>
  ELSE LET entry == Head(entries)
           val == Escape(ResolveKeyed(entry.key, existing, local, archive))
       IN  <<EnItem(OriginalText(entry.value)), ElemItem(entry.key, val)>>
           \o LiveKeyed(Tail(entries), existing, local, archive)

\* save_keyed_translations: the document written and the action logged.
save_keyed_translations(entries, file, local, archive) ==
  LET existing == ReadExistingKeyed(file)
  IN  [file |-> FileOf(LiveKeyed(entries, existing, local, archive)
                       \o UnusedSection(existing, EntryKeys(entries))),
       action |-> ActionOf(existing)]

(***************************************************************************)
(* Tag Classifier and Key Path Deriver                                     *)
(***************************************************************************)

S_li == <<"l", "i">>

S_defName == <<"d", "e", "f", "N", "a", "m", "e">>

S_def == <<"d", "e", "f">>

S_customLabel == <<"c", "u", "s", "t", "o", "m", "L", "a", "b", "e", "l">>

S_rulesStrings == <<"r", "u", "l", "e", "s", "S", "t", "r", "i", "n", "g", "s">>

\* An element: its tag, its text (<<>> when it has none) and its child elements.
Node(tag, text, kids) == [tag |-> tag, text |-> text, kids |-> kids]

Leaf(tag, text) == Node(tag, text, <<>>)

\* element.find(tag) finds a child: the first one with that tag.
HasChild(element, tag) == \E i \in DOMAIN element.kids : element.kids[i].tag = tag

FirstChild(element, tag) ==
  element.kids[CHOOSE i \in DOMAIN element.kids :
                 /\ element.kids[i].tag = tag
                 /\ \A j \in 1..(i - 1) : element.kids[j].tag # tag]

\* "".join(c for c in text if c.isalnum() or c in ('_', '-'))
RECURSIVE SafeChars(_)
SafeChars(text) ==
  IF text = <<>> THEN <<>>
  ELSE (IF IsAlnum(Head(text)) \/ Head(text) \in {"_", "-"} THEN <<Head(text)>> ELSE <<>>)
       \o SafeChars(Tail(text))

\* get_li_name(element): the sanitized customLabel, else def, else None (<<>>).
get_li_name(element) ==
  IF HasChild(element, S_customLabel) /\ FirstChild(element, S_customLabel).text # <<>>
  THEN SafeChars(Replace(Strip(FirstChild(element, S_customLabel).text), <<" ">>, <<"_">>))
  ELSE IF HasChild(element, S_def) /\ FirstChild(element, S_def).text # <<>>
       THEN Strip(FirstChild(element, S_def).text)
       ELSE <<>>

\* li_children_names[i]
LiChildName(node, i) ==
  IF node.kids[i].tag = S_li THEN get_li_name(node.kids[i]) ELSE <<>>

\* name_counts.get(name, 0)
NameCount(node, name) ==
  Cardinality({i \in DOMAIN node.kids : node.kids[i].tag = S_li /\ LiChildName(node, i) = name})

\* any(b.lower() in tag.lower() for b in tags)
AnyIn(tags, tag) == \E i \in DOMAIN tags : Contains(Lower(tag), Lower(tags[i]))

\* A filter without the rules-list exception.
Emitted_NoRulesList(child, new_path, is_rules_list, blacklisted_tags, translatable_tags) ==
  IF child.text # <<>> /\ Strip(child.text) # <<>> /\ child.kids = <<>>
  THEN IF AnyIn(blacklisted_tags, child.tag) THEN <<>>
       ELSE IF AnyIn(translatable_tags, child.tag)
            THEN <<Entry(new_path, Strip(child.text))>>
            ELSE <<>>
  ELSE <<>>

\* A filter that tests whitelist and rules list before the blacklist.
Emitted_WhitelistFirst(child, new_path, is_rules_list, blacklisted_tags, translatable_tags) ==
  IF child.text # <<>> /\ Strip(child.text) # <<>> /\ child.kids = <<>>
  THEN IF AnyIn(translatable_tags, child.tag) \/ is_rules_list
       THEN <<Entry(new_path, Strip(child.text))>>
       ELSE <<>>
  ELSE <<>>

\* The entries appended for a child at new_path: at most one.  Blacklist is
\* tested first, then whitelist or rules list.
Emitted(child, new_path, is_rules_list, blacklisted_tags, translatable_tags) ==
  IF child.text # <<>> /\ Strip(child.text) # <<>> /\ child.kids = <<>>
  THEN IF AnyIn(blacklisted_tags, child.tag) THEN <<>>
       ELSE IF AnyIn(translatable_tags, child.tag) \/ is_rules_list
            THEN <<Entry(new_path, Strip(child.text))>>
            ELSE <<>>
  ELSE <<>>

\* A part that numbers every unnamed li item 0.
PartOf_Unnumbered(node, i, name_indices, li_index) ==
  IF node.kids[i].tag = S_li
  THEN IF LiChildName(node, i) # <<>>
       THEN IF NameCount(node, LiChildName(node, i)) > 1
            THEN LiChildName(node, i) \o <<"-">>
                   \o Digits(DictGet(name_indices, LiChildName(node, i), 0))
            ELSE LiChildName(node, i)
       ELSE <<"0">>
  ELSE node.kids[i].tag

\* The path part of child i, given the running counters of the loop.
PartOf(node, i, name_indices, li_index) ==
  LET name == LiChildName(node, i)
  IN  IF node.kids[i].tag = S_li
      THEN IF name # <<>>
           THEN IF NameCount(node, name) > 1
                THEN name \o <<"-">> \o Digits(DictGet(name_indices, name, 0))
                ELSE name
           ELSE Digits(li_index)
      ELSE node.kids[i].tag

\* A loop that never advances the counter of a name.
NextIndices_Stuck(node, i, name_indices) == name_indices

\* name_indices after child i.
NextIndices(node, i, name_indices) ==
  LET name == LiChildName(node, i)
  IN  IF node.kids[i].tag = S_li /\ name # <<>> /\ NameCount(node, name) > 1
      THEN DictSet(name_indices, name, DictGet(name_indices, name, 0) + 1)
      ELSE name_indices

\* The entries of a sequence of loop steps, in the order they are appended.
RECURSIVE FlatSteps(_)
FlatSteps(steps) ==
  IF steps = <<>> THEN <<>>
  ELSE Head(steps).emitted \o Head(steps).sub \o FlatSteps(Tail(steps))

\* The loop of extract_recursive over the children from the i-th on: per child
\* its path part, the entries appended for it and the entries of the recursive
\* call on it (a defName child is skipped: no part, no entries).
RECURSIVE ChildSteps(_, _, _, _, _, _, _)
ChildSteps(node, current_path, i, name_indices, li_index, blacklisted_tags, translatable_tags) ==
  IF i > Len(node.kids) THEN <<>>
  ELSE LET child == node.kids[i]
       IN  IF child.tag = S_defName
           THEN <<[part |-> <<>>, emitted |-> <<>>, sub |-> <<>>]>>
                \o ChildSteps(node, current_path, i + 1, name_indices, li_index,
                              blacklisted_tags, translatable_tags)
           ELSE LET part == PartOf(node, i, name_indices, li_index)
                    new_path == current_path \o Dot(part)
                    is_rules_list == node.tag = S_rulesStrings /\ child.tag = S_li
                IN  <<[part |-> part,
                       emitted |-> Emitted(child, new_path, is_rules_list,
                                           blacklisted_tags, translatable_tags),
                       sub |-> FlatSteps(ChildSteps(child, new_path, 1, <<>>, 0,
                                               blacklisted_tags, translatable_tags))]>>
                    \o ChildSteps(node, current_path, i + 1,
                                  NextIndices(node, i, name_indices),
                                  IF child.tag = S_li THEN li_index + 1 ELSE li_index,
                                  blacklisted_tags, translatable_tags)

\* extract_recursive(node, current_path, results): the entries appended.
extract_recursive(node, current_path, blacklisted_tags, translatable_tags) ==
  FlatSteps(ChildSteps(node, current_path, 1, <<>>, 0, blacklisted_tags, translatable_tags))

(***************************************************************************)
(* Per-file processing                                                     *)
(***************************************************************************)

\* A source file: its kind ("Defs" or "Keyed"), its name, whether it is
\* well-formed XML, its root element, and whether its output folder and
\* file can be created and opened.
SourceFile(kind, name, well_formed, root, writable) ==
  [kind |-> kind, name |-> name, well_formed |-> well_formed, root |-> root,
   writable |-> writable]

\* A line of the log or of a result list: what it says and about which file.
Line(what, folder, name) == <<what, folder, name>>

S_ErrorAlParsear ==
  <<"E", "r", "r", "o", "r", " ", "a", "l", " ", "p", "a", "r", "s", "e", "a", "r">>

S_ErrorCritico ==
  <<"E", "R", "R", "O", "R", " ", "C", "R", "I", "T", "I", "C", "O">>

S_Keyed == <<"K", "e", "y", "e", "d">>

\* translations_by_type of process_file: per definition type, in the order the
\* types first appear, the entries derived from its definitions; a definition
\* without a defName is skipped.
RECURSIVE TranslationsByType(_, _, _, _)
TranslationsByType(d, def_nodes, blacklisted, translatable) ==
  IF def_nodes = <<>> THEN d
  ELSE LET def_node == Head(def_nodes)
           rest == Tail(def_nodes)
       IN  IF ~HasChild(def_node, S_defName) \/ FirstChild(def_node, S_defName).text = <<>>
           THEN TranslationsByType(d, rest, blacklisted, translatable)
           ELSE TranslationsByType(
                  DictSet(d, def_node.tag,
                          DictGet(d, def_node.tag, <<>>)
                            \o extract_recursive(def_node,
                                                 FirstChild(def_node, S_defName).text,
                                                 blacklisted, translatable)),
                  rest, blacklisted, translatable)

\* save_translations(translations_dict, original_filename, ...): one output file
\* per definition type with entries.  Creating the folder or opening the file
\* may raise; what was written before stays written.
RECURSIVE save_translations(_, _, _, _, _, _, _, _)
save_translations(translations_dict, name, outs, writable, local, archive, english, recover) ==
  IF translations_dict = <<>> THEN [outputs |-> outs, results |-> <<>>, raised |-> FALSE]
  ELSE LET def_type == Head(translations_dict)[1]
           fresh == Head(translations_dict)[2]
           path == <<def_type, name>>
       IN  IF fresh = <<>>
           THEN save_translations(Tail(translations_dict), name, outs, writable, local,
                                  archive, english, recover)
           ELSE IF ~writable
                THEN [outputs |-> outs, results |-> <<>>, raised |-> TRUE]
                ELSE LET r == SaveDefType(fresh, def_type, DictGet(outs, path, NoFile),
                                          local, archive, english, recover)
                         more == save_translations(Tail(translations_dict), name,
                                                   DictSet(outs, path, r.file), writable,
                                                   local, archive, english, recover)
                     IN  [outputs |-> more.outputs,
                          results |-> <<Line(r.action, def_type, name)>> \o more.results,
                          raised |-> more.raised]

\* A process_file that lets the parse error out to run_extraction.
process_file_Raising(file, outs, local, archive, english, recover, blacklisted, translatable) ==
  IF ~file.well_formed
  THEN [outputs |-> outs, results |-> <<>>, raised |-> TRUE, logged |-> <<>>]
  ELSE LET by_type == TranslationsByType(<<>>, file.root.kids, blacklisted, translatable)
           r == save_translations(by_type, file.name, outs, file.writable, local, archive,
                                  english, recover)
       IN  [outputs |-> r.outputs, results |-> r.results, raised |-> r.raised,
            logged |-> <<>>]

\* process_file(file_path, file_name, target_base_path, archive_base_path): a
\* file that does not parse is logged and gives no results.
process_file(file, outs, local, archive, english, recover, blacklisted, translatable) ==
  IF ~file.well_formed
  THEN [outputs |-> outs, results |-> <<>>, raised |-> FALSE,
        logged |-> <<Line(S_ErrorAlParsear, <<>>, file.name)>>]
  ELSE LET by_type == TranslationsByType(<<>>, file.root.kids, blacklisted, translatable)
           r == save_translations(by_type, file.name, outs, file.writable, local, archive,
                                  english, recover)
       IN  [outputs |-> r.outputs, results |-> r.results, raised |-> r.raised,
            logged |-> <<>>]

\* entries of process_keyed_file: the children of the root that have text.
RECURSIVE KeyedEntries(_)
KeyedEntries(children) ==
  IF children = <<>> THEN <<>>
  ELSE (IF Head(children).text # <<>>
        THEN <<Entry(Head(children).tag, Strip(Head(children).text))>>
        ELSE <<>>) \o KeyedEntries(Tail(children))

\* process_keyed_file(file_path, file_name, target_dir, archive_dir)
process_keyed_file(file, outs, local, archive) ==
  IF ~file.well_formed
  THEN [outputs |-> outs, results |-> <<>>, raised |-> FALSE,
        logged |-> <<Line(S_ErrorAlParsear, S_Keyed, file.name)>>]
  ELSE LET fresh == KeyedEntries(file.root.kids)
           path == <<S_Keyed, file.name>>
       IN  IF fresh = <<>>
           THEN [outputs |-> outs, results |-> <<>>, raised |-> FALSE, logged |-> <<>>]
           ELSE IF ~file.writable
                THEN [outputs |-> outs, results |-> <<>>, raised |-> TRUE, logged |-> <<>>]
                ELSE LET r == save_keyed_translations(fresh, DictGet(outs, path, NoFile),
                                                      local, archive)
                     IN  [outputs |-> DictSet(outs, path, r.file),
                          results |-> <<Line(r.action, S_Keyed, file.name)>>,
                          raised |-> FALSE, logged |-> <<>>]

(***************************************************************************)
(* State                                                                   *)
(***************************************************************************)

VARIABLES
  kind,             \* "DefInjected" or "Keyed": which writer owns the output file
  def_type,         \* the definition type of the source file (DefInjected)
  recover_implicit, \* the option act_recover_implicit
  entries,          \* the fresh derivation of the source file
  localFile,        \* the mirrored file of the reference archive
  archiveFiles,     \* the files of the archived language tree
  englishFiles,     \* the files of Languages/English of the mod
  outFile,          \* the output file
  prevFile,         \* the output file as the last call found it
  action,           \* the action the last call reported
  runs,             \* the calls made so far
  sameRuns,         \* the calls made since the source last changed
  blacklisted_tags, \* self.blacklisted_tags
  translatable_tags,\* self.translatable_tags
  node,             \* the element extract_recursive is called on
  current_path,     \* the path it is called with
  steps,            \* what its loop did per child, once it has run
  sourceFiles,      \* the source files of the mod, in the order they are walked
  outputs,          \* the output folder: a dict from <<folder, file name>> to file
  act_clean,        \* the option act_clean
  status,           \* where run_extraction stands
  pos,              \* the source file its loop is at
  pending,          \* version_files_log / keyed_files_log
  log,              \* the lines of the log about source and output files
  target_version,   \* the version chosen in version_combo
  merge_versions,   \* the option act_merge
  simplify_mods,    \* the option act_simplify_mods
  directories,      \* the Defs and Keyed directories found under the mod
  dir_pos,          \* the directory the loop is at
  resolved,         \* per directory visited: whether it is processed, and where to
  mods,             \* mods_a_procesar: per mod the source files of its language folder
  eliminar_comentarios,     \* the option of CopiadorThread
  pc,               \* per mod: where its _procesar_mod call stands
  file_index,       \* per mod: the file its loop is at
  archivos_actual,  \* per mod: the file count its call read, then stored
  progreso_general, \* per mod: the mod count its call read, then the percentage
  archivos_procesados_local, \* per mod: the loop passes completed
  lock,             \* self._lock: 0 when free, else the mod whose call holds it
  mods_procesados_count,    \* self._mods_procesados_count
  archivos_copiados,        \* self.archivos_copiados
  written,          \* the <<mod, file>> pairs a destination file was written for
  progreso,         \* the values emitted on the signal progreso, in order
  archivos_count,   \* the values emitted on the signal archivos_count, in order
  terminado         \* the values emitted on the signal terminado

mergeVars ==
  <<kind, def_type, recover_implicit, entries, localFile, archiveFiles, englishFiles,
    outFile, prevFile, action, runs, sameRuns>>

tagVars == <<blacklisted_tags, translatable_tags>>

extractVars == <<node, current_path, steps>>

batchVars == <<sourceFiles, outputs, act_clean, status, pos, pending, log>>

pathVars == <<target_version, merge_versions, simplify_mods, directories, dir_pos, resolved>>

copyVars ==
  <<mods, eliminar_comentarios, pc, file_index, archivos_actual, progreso_general,
    archivos_procesados_local, lock,
    mods_procesados_count, archivos_copiados, written, progreso, archivos_count,
    terminado>>

vars == <<mergeVars, tagVars, extractVars, batchVars, pathVars, copyVars>>

\* The number of successive calls on one output file that are explored.
MaxRuns == 3

(***************************************************************************)
(* Inputs                                                                  *)
(***************************************************************************)

K_A_label == <<"A">> \o Dot(S_label)

K_A_title == <<"A">> \o Dot(S_title)

K_A_baseDesc == <<"A">> \o Dot(S_baseDesc)

K_A_description == <<"A">> \o Dot(S_description)

K_A_extra == <<"A", ".", "e", "x", "t", "r", "a">>

K_B_label == <<"B">> \o Dot(S_label)

K_B_zz == <<"B", ".", "z", "z">>

K_B_aa == <<"B", ".", "a", "a">>

K_Old == <<"O", "l", "d", ".", "l", "a", "b", "e", "l">>

T_ThingDef == <<"T", "h", "i", "n", "g", "D", "e", "f">>

T_BackstoryDef == S_Backstory \o <<"D", "e", "f">>

\* Source texts: plain, with a run of three dashes, with a character to escape;
\* fields in and out of the priority table.
SourcePool ==
  { <<Entry(K_A_label, <<"s">>)>>,
    <<Entry(K_B_label, <<"t", "&", "u">>), Entry(K_A_label, <<"s">>)>>,
    <<Entry(K_A_baseDesc, <<"a", "-", "-", "-", "b">>), Entry(K_A_label, <<"s">>)>>,
    <<Entry(K_B_zz, <<"v">>), Entry(K_B_aa, <<"w">>), Entry(K_B_label, <<"v">>)>> }

\* Values a translator left in the output file: a translation, one padded with
\* blanks, one holding a double dash, the placeholder, blanks only.
PriorValues ==
  { <<"x">>, <<" ", "x", "&", "y", " ">>, <<"p", "-", "-", "q">>, S_TODO, <<" ">> }

\* The elements of a hand-edited output file, for a choice of value per key
\* (<<>> for a key the file does not have).
PriorItems(va, vo) ==
  (IF va = <<>> THEN <<>> ELSE <<ElemItem(K_A_label, Escape(va))>>)
  \o (IF vo = <<>> THEN <<>> ELSE <<ElemItem(K_Old, Escape(vo))>>)

PriorFiles ==
  {NoFile} \cup {FileOf(PriorItems(va, vo)) : va, vo \in PriorValues \cup {<<>>}}

\* Reference archives: <<local file, files of the language tree, English files>>.
\* The local file lies in the language tree, so it is one of its files.
ArchivePool ==
  { <<NoFile, <<>>, <<>>>>,
    <<FileOf(<<ElemItem(K_A_label, <<"L">>)>>),
      <<FileOf(<<ElemItem(K_A_label, <<"L">>)>>),
        FileOf(<<ElemItem(K_A_label, <<" ", "G", " ">>), ElemItem(K_B_label, <<"t", "o", "d", "o">>)>>)>>,
      <<>>>>,
    <<NoFile,
      <<FileOf(<<ElemItem(K_A_title, <<"H">>), ElemItem(K_A_extra, <<"I">>)>>),
        FileOf(<<ElemItem(K_A_baseDesc, <<"D">>)>>)>>,
      <<FileOf(<<ElemItem(K_A_extra, <<"e", "n", "g">>), ElemItem(K_A_label, <<"E">>)>>)>>>>,
    <<FileOf(<<ElemItem(K_A_label, <<"L">>)>>), <<FileOf(<<ElemItem(K_A_label, <<"L">>)>>)>>, <<>>>>,
    <<NoFile, <<FileOf(<<ElemItem(K_A_description, <<"S">>)>>)>>, <<>>>> }

\* <<kind, def_type, recover_implicit>>
ModePool ==
  { <<"Keyed", <<>>, FALSE>>,
    <<"DefInjected", T_ThingDef, FALSE>>,
    <<"DefInjected", T_ThingDef, TRUE>>,
    <<"DefInjected", T_BackstoryDef, FALSE>>,
    <<"DefInjected", T_BackstoryDef, TRUE>> }

(***************************************************************************)
(* Runs on one output file                                                 *)
(***************************************************************************)

\* The parts of the state a specification does not exercise stay as they are
\* here.
NoMerge ==
  /\ kind = "DefInjected"
  /\ def_type = <<>>
  /\ recover_implicit = FALSE
  /\ entries = <<>>
  /\ localFile = NoFile
  /\ archiveFiles = <<>>
  /\ englishFiles = <<>>
  /\ outFile = NoFile
  /\ prevFile = NoFile
  /\ action = <<>>
  /\ runs = 0
  /\ sameRuns = 0

NoTags == blacklisted_tags = <<>> /\ translatable_tags = <<>>

NoExtraction == node = Leaf(<<>>, <<>>) /\ current_path = <<>> /\ steps = <<>>

NoBatch ==
  /\ sourceFiles = <<>>
  /\ outputs = <<>>
  /\ act_clean = FALSE
  /\ status = "idle"
  /\ pos = 0
  /\ pending = <<>>
  /\ log = <<>>

NoPaths ==
  /\ target_version = <<>>
  /\ merge_versions = FALSE
  /\ simplify_mods = FALSE
  /\ directories = <<>>
  /\ dir_pos = 0
  /\ resolved = <<>>

NoCopy ==
  /\ mods = <<>>
  /\ eliminar_comentarios = FALSE
  /\ pc = <<>>
  /\ file_index = <<>>
  /\ archivos_actual = <<>>
  /\ progreso_general = <<>>
  /\ archivos_procesados_local = <<>>
  /\ lock = 0
  /\ mods_procesados_count = 0
  /\ archivos_copiados = 0
  /\ written = {}
  /\ progreso = <<>>
  /\ archivos_count = <<>>
  /\ terminado = <<>>

Init ==
  /\ NoCopy
  /\ NoPaths
  /\ \E m \in ModePool : kind = m[1] /\ def_type = m[2] /\ recover_implicit = m[3]
  /\ entries \in SourcePool
  /\ \E a \in ArchivePool : localFile = a[1] /\ archiveFiles = a[2] /\ englishFiles = a[3]
  /\ outFile \in PriorFiles
  /\ prevFile = NoFile
  /\ action = <<>>
  /\ runs = 0
  /\ sameRuns = 0
  /\ NoTags
  /\ NoExtraction
  /\ NoBatch

\* self.english_translations: loaded only when recover-implicit is on.
EnglishTranslations ==
  IF recover_implicit THEN load_archive_translations(englishFiles) ELSE <<>>

\* process_file on a source file of definitions: save_translations writes the
\* output file of its definition type.
RunDefInjected ==
  /\ kind = "DefInjected"
  /\ runs < MaxRuns
  /\ LET r == SaveDefType(entries, def_type, outFile,
                                load_single_xml_translations(localFile),
                                load_archive_translations(archiveFiles),
                                EnglishTranslations, recover_implicit)
     IN  /\ outFile' = r.file
         /\ action' = r.action
  /\ prevFile' = outFile
  /\ runs' = runs + 1
  /\ sameRuns' = sameRuns + 1
  /\ UNCHANGED <<kind, def_type, recover_implicit, entries, localFile, archiveFiles,
                 englishFiles, tagVars, pathVars, extractVars, batchVars, copyVars>>

\* process_keyed_file on a keyed source file: save_keyed_translations writes
\* the output file.
RunKeyed ==
  /\ kind = "Keyed"
  /\ runs < MaxRuns
  /\ LET r == save_keyed_translations(entries, outFile,
                                      load_single_xml_translations(localFile),
                                      load_archive_translations(archiveFiles))
     IN  /\ outFile' = r.file
         /\ action' = r.action
  /\ prevFile' = outFile
  /\ runs' = runs + 1
  /\ sameRuns' = sameRuns + 1
  /\ UNCHANGED <<kind, def_type, recover_implicit, entries, localFile, archiveFiles,
                 englishFiles, tagVars, pathVars, extractVars, batchVars, copyVars>>

\* The mod is updated between two runs: the source file derives other entries.
ChangeSource ==
  /\ runs >= 1
  /\ runs < MaxRuns
  /\ sameRuns >= 1
  /\ \E e \in SourcePool \ {entries} : entries' = e
  /\ sameRuns' = 0
  /\ UNCHANGED <<kind, def_type, recover_implicit, localFile, archiveFiles, englishFiles,
                 outFile, prevFile, action, runs, tagVars, pathVars, extractVars, batchVars, copyVars>>

Next == RunDefInjected \/ RunKeyed \/ ChangeSource

Spec == Init /\ [][Next]_vars

(***************************************************************************)
(* Properties of the runs on one output file                               *)
(***************************************************************************)

\* The positions of the live elements of a file named key.
ElemPositions(file, key) ==
  {i \in DOMAIN file.items : file.items[i].t = "elem" /\ file.items[i].key = key}

\* The character data of the elements of a file named key.
ElemValues(file, key) == {Unescape(file.items[i].text) : i \in ElemPositions(file, key)}

\* The keys the last call wrote as live elements for the fresh derivation.
FreshKeys ==
  IF kind = "DefInjected"
  THEN {Processed(entries[i], Contains(def_type, S_Backstory)).key : i \in DOMAIN entries}
  ELSE EntryKeys(entries)

\* The entries the last call read from the file it found.
ExistingRead ==
  IF kind = "DefInjected" THEN ReadExistingDefInjected(prevFile)
  ELSE ReadExistingKeyed(prevFile)

\* A call has been made on the current source.
AfterCall == runs >= 1 /\ sameRuns >= 1

\* C1, as stated: every fresh key that has a non-empty value other than "TODO"
\* in the prior output file is written with exactly that value.
C1_PreservedVerbatim ==
  AfterCall =>
    \A k \in EntryKeys(entries) :
      \A v \in ElemValues(prevFile, k) :
        (v # <<>> /\ v # S_TODO) => ElemValues(outFile, k) = {v}

\* C2, as stated: a second run on unchanged source and archive leaves the
\* output file as the first run left it.
C2_Idempotent == sameRuns >= 2 => outFile = prevFile

\* The positions of the disabled records of a file for key.
DeadPositions(file, key) ==
  {i \in DOMAIN file.items : file.items[i].t = "dead" /\ file.items[i].key = key}

\* C3: every key read from the prior file and not written live has exactly one
\* disabled record, with the value read, after the INUTILIZADO marker, which
\* follows every live element; the key has no live element.
C3_OrphanRetained ==
  AfterCall =>
    \A k \in DictKeys(ExistingRead) :
      ElemPositions(outFile, k) = {} =>
        /\ Cardinality(DeadPositions(outFile, k)) = 1
        /\ \A d \in DeadPositions(outFile, k) :
             /\ outFile.items[d].text = DictGet(ExistingRead, k, <<>>)
             /\ \E m \in 1..(d - 1) :
                  /\ outFile.items[m].t = "marker"
                  /\ \A i \in DOMAIN outFile.items :
                       outFile.items[i].t \in {"elem", "en"} => i < m

\* C3 witness: the key Old.label of the prior file left the derivation and its
\* record stands disabled behind a live element.
C3_Witness ==
  /\ AfterCall
  /\ ElemPositions(outFile, K_Old) = {}
  /\ \E d \in DeadPositions(outFile, K_Old) :
       /\ outFile.items[d].text = <<"x">>
       /\ \E i \in 1..(d - 1) : outFile.items[i].t = "elem"

\* The translated values a file holds: <<key, value>> of the live elements and
\* of the disabled records, the empty and the placeholder values left out.
Held(file) ==
  {<<file.items[i].key,
     IF file.items[i].t = "elem" THEN Unescape(file.items[i].text) ELSE file.items[i].text>> :
     i \in {j \in DOMAIN file.items : file.items[j].t \in {"elem", "dead"}}}
  \ {<<file.items[i].key, v>> : i \in DOMAIN file.items, v \in {<<>>, S_TODO}}

\* C4, as stated: what the output file held after a run it still holds after
\* the next run, live or disabled.
C4_NothingLost == runs >= 2 => Held(prevFile) \subseteq Held(outFile)

\* C7, as stated: a fresh key of a DefInjected file without a usable prior
\* value gets the local archive value, else the global one, else the global one
\* of its synonym key, else "TODO".
C7_FallbackChain ==
  (AfterCall /\ kind = "DefInjected") =>
    LET local == load_single_xml_translations(localFile)
        archive == load_archive_translations(archiveFiles)
        Swap(k, a, b) == SubSeq(k, 1, Len(k) - Len(a)) \o b
        SynonymKeys(k) ==
          {Swap(k, Synonyms[i][1], Synonyms[i][2]) :
             i \in {j \in DOMAIN Synonyms : EndsWith(k, Synonyms[j][1])}}
    IN  \A k \in FreshKeys :
          DictGet(ExistingRead, k, S_TODO) \in {<<>>, S_TODO} =>
            ElemValues(outFile, k) =
              {IF DictHas(local, k) THEN DictGet(local, k, <<>>)
               ELSE IF DictHas(archive, k) THEN DictGet(archive, k, <<>>)
               ELSE IF \E s \in SynonymKeys(k) : DictHas(archive, s)
                    THEN DictGet(archive, CHOOSE s \in SynonymKeys(k) : DictHas(archive, s), <<>>)
               ELSE S_TODO}

\* C8: the EN comment before the element of every derived entry carries the
\* derived source text, with "--" replaced by "- -" and nothing else changed.
C8_SourceTextKept ==
  AfterCall =>
    \A e \in DOMAIN entries :
      \E i \in DOMAIN outFile.items :
        /\ outFile.items[i] = EnItem(Replace(entries[e].value, <<"-", "-">>, <<"-", " ", "-">>))
        /\ i + 1 \in DOMAIN outFile.items
        /\ outFile.items[i + 1].t = "elem"
        /\ outFile.items[i + 1].key =
             (IF kind = "DefInjected"
              THEN Processed(entries[e], Contains(def_type, S_Backstory)).key
              ELSE entries[e].key)

\* C8 witness: the global and the English archive hold texts for A.label, the
\* prior file held a translation of it, and the comment shows the source text.
C8_Witness ==
  /\ AfterCall
  /\ kind = "DefInjected"
  /\ recover_implicit
  /\ DictHas(load_archive_translations(englishFiles), K_A_label)
  /\ ElemValues(prevFile, K_A_label) = {<<"x">>}
  /\ \E i \in DOMAIN outFile.items :
       /\ outFile.items[i] = EnItem(<<"s">>)
       /\ i + 1 \in DOMAIN outFile.items
       /\ outFile.items[i + 1] = ElemItem(K_A_label, <<"x">>)

\* The part of a key before its first dot, the whole key when it has none.
FirstComponent(key) ==
  LET dots == {i \in DOMAIN key : key[i] = "."}
  IN  IF dots = {} THEN key
      ELSE SubSeq(key, 1, (CHOOSE d \in dots : \A e \in dots : d <= e) - 1)

\* The global-archive keys recovery is due for: dotted, of a definition some
\* fresh key names, and not a fresh key.
ImplicitKeys ==
  {k \in DictKeys(load_archive_translations(archiveFiles)) :
     /\ \E i \in DOMAIN k : k[i] = "."
     /\ \E e \in DOMAIN entries : FirstComponent(entries[e].key) = FirstComponent(k)
     /\ k \notin EntryKeys(entries)}

\* The live elements of a file.
LiveElements(file) == {i \in DOMAIN file.items : file.items[i].t = "elem"}

\* C16: with recover_implicit on, the live elements are those of the fresh
\* entries and one more per global-archive key that is dotted, of a definition a
\* fresh key names, and not a fresh key, its EN comment showing the English
\* archive's text for the key, else "(Implicit/Inherited)"; with the option off,
\* every live element is that of a fresh entry (under the Backstory rename).
C16_ImplicitRecovery ==
  (AfterCall /\ kind = "DefInjected") =>
    IF recover_implicit
    THEN /\ Cardinality(LiveElements(outFile)) = Len(entries) + Cardinality(ImplicitKeys)
         /\ \A k \in ImplicitKeys :
              \E i \in LiveElements(outFile) :
                /\ outFile.items[i].key
                     = Processed(Entry(k, <<>>), Contains(def_type, S_Backstory)).key
                /\ outFile.items[i - 1] =
                     EnItem(IF DictHas(load_archive_translations(englishFiles), k)
                            THEN DictGet(load_archive_translations(englishFiles), k, <<>>)
                            ELSE S_Implicit)
    ELSE /\ Cardinality(LiveElements(outFile)) = Len(entries)
         /\ \A i \in LiveElements(outFile) : outFile.items[i].key \in FreshKeys

\* C16 witness: A.label alone was derived, the archive holds A.title and
\* A.extra, the English archive holds A.extra only; both keys were written, one
\* under its English text and one under the marker.
C16_Witness ==
  /\ AfterCall
  /\ kind = "DefInjected"
  /\ recover_implicit
  /\ entries = <<Entry(K_A_label, <<"s">>)>>
  /\ \E i, j \in LiveElements(outFile) :
       /\ outFile.items[i].key = K_A_extra
       /\ outFile.items[i - 1] = EnItem(<<"e", "n", "g">>)
       /\ outFile.items[j].key = K_A_title
       /\ outFile.items[j - 1] = EnItem(S_Implicit)

\* The text is "TODO" in some letter case.
IsPlaceholder(text) ==
  /\ Len(text) = 4
  /\ text[1] \in {"T", "t"}
  /\ text[2] \in {"O", "o"}
  /\ text[3] \in {"D", "d"}
  /\ text[4] \in {"O", "o"}

\* The index has no empty value, no padded value and no placeholder.
CleanIndex(index) ==
  \A i \in DOMAIN index :
    /\ index[i][2] # <<>>
    /\ index[i][2][1] # " "
    /\ index[i][2][Len(index[i][2])] # " "
    /\ ~IsPlaceholder(index[i][2])

\* C17: the indices built from the local archive file, from the archive tree
\* and from the English tree hold no empty text and no "TODO" in any letter
\* case; a value the call wrote for a fresh key that had no prior value and is
\* in the local or the global index is not a placeholder.
C17_NoPlaceholderInIndex ==
  /\ CleanIndex(load_single_xml_translations(localFile))
  /\ CleanIndex(load_archive_translations(archiveFiles))
  /\ CleanIndex(load_archive_translations(englishFiles))
  /\ AfterCall =>
       \A k \in FreshKeys :
         (/\ ~DictHas(ExistingRead, k)
          /\ DictHas(load_archive_translations(archiveFiles), k))
         => \A v \in ElemValues(outFile, k) : ~IsPlaceholder(v) /\ v # <<>>

\* C17 witness: the archive tree holds "todo" for B.label and a padded text for
\* A.label; the index has A.label only, and the call wrote the placeholder of
\* its own for B.label and an archive text for A.label.
C17_Witness ==
  /\ AfterCall
  /\ \E f \in DOMAIN archiveFiles :
       \E i \in DOMAIN archiveFiles[f].items :
         archiveFiles[f].items[i] = ElemItem(K_B_label, <<"t", "o", "d", "o">>)
  /\ DictKeys(load_archive_translations(archiveFiles)) = {K_A_label}
  /\ DictGet(load_archive_translations(archiveFiles), K_A_label, <<>>) = <<"G">>
  /\ ~DictHas(ExistingRead, K_A_label)
  /\ ~DictHas(ExistingRead, K_B_label)
  /\ ElemValues(outFile, K_B_label) = {S_TODO}
  /\ ElemValues(outFile, K_A_label) = {<<"L">>}

C20_CommentSafe ==
  AfterCall =>
    \A i \in DOMAIN outFile.items :
      outFile.items[i].t = "en" =>
        ~\E c \in 1..(Len(outFile.items[i].text) - 1) :
           outFile.items[i].text[c] = "-" /\ outFile.items[i].text[c + 1] = "-"

\* The key a fresh key is written under: <defName>.description for the key
\* <defName>.baseDesc of a definition type whose name holds "Backstory", the
\* key itself otherwise.
WrittenKey(key) ==
  IF /\ \E a \in 0..(Len(def_type) - 9) : SubSeq(def_type, a + 1, a + 9) = S_Backstory
     /\ key = FirstComponent(key) \o <<".">> \o S_baseDesc
  THEN FirstComponent(key) \o <<".">> \o S_description
  ELSE key

\* C21: every fresh entry of a DefInjected file is written as a live element
\* under its key, rewritten from <defName>.baseDesc to <defName>.description in
\* a Backstory type and unchanged otherwise, with the value that the prior
\* output, the local archive and the global archive give for the key as
\* written; a Backstory file has no live element named <defName>.baseDesc.
C21_BackstoryRename ==
  (AfterCall /\ kind = "DefInjected") =>
    /\ \A e \in DOMAIN entries :
         \E i \in LiveElements(outFile) :
           /\ outFile.items[i].key = WrittenKey(entries[e].key)
           /\ outFile.items[i - 1] = EnItem(OriginalText(entries[e].value))
           /\ Unescape(outFile.items[i].text)
                = ResolveDefInjected(WrittenKey(entries[e].key), ExistingRead,
                                     load_single_xml_translations(localFile),
                                     load_archive_translations(archiveFiles))
    /\ \A e \in DOMAIN entries :
         WrittenKey(entries[e].key) # entries[e].key
           => ElemPositions(outFile, entries[e].key) = {}

\* C21 witness: in a BackstoryDef file A.baseDesc was derived, the archive
\* holds A.baseDesc only; the element is A.description, with the archive's
\* text, and A.label next to it kept its key.
C21_Witness ==
  /\ AfterCall
  /\ kind = "DefInjected"
  /\ def_type = T_BackstoryDef
  /\ \E e \in DOMAIN entries : entries[e].key = K_A_baseDesc
  /\ DictHas(load_archive_translations(archiveFiles), K_A_baseDesc)
  /\ ElemPositions(outFile, K_A_baseDesc) = {}
  /\ ElemValues(outFile, K_A_description) = {<<"D">>}
  /\ ElemPositions(outFile, K_A_label) # {}

\* The part of a key after its first dot, empty when it has none.
FieldPart(key) == SubSeq(key, Len(FirstComponent(key)) + 2, Len(key))

\* The place of a field in the priority table, 99 outside it.
FieldRank(field) ==
  LET table == <<S_label, S_description, S_title, S_titleShort, S_baseDesc,
                 S_deathMessage, S_endMessage>>
  IN  IF \E r \in DOMAIN table : table[r] = field
      THEN CHOOSE r \in DOMAIN table : table[r] = field
      ELSE 99

\* C22: the live elements of a DefInjected file stand in the order of their
\* definition names, within a definition in the order of the field priority
\* table with every field outside it last, and fresh entries equal on both
\* stand in the order they were derived.
C22_EntryOrder ==
  (AfterCall /\ kind = "DefInjected") =>
    /\ \A i, j \in LiveElements(outFile) :
         i < j =>
           LET a == outFile.items[i].key
               b == outFile.items[j].key
           IN  /\ ~StrLess(FirstComponent(b), FirstComponent(a))
               /\ FirstComponent(a) = FirstComponent(b)
                    => FieldRank(FieldPart(a)) <= FieldRank(FieldPart(b))
    /\ \A e, f \in DOMAIN entries :
         (/\ e < f
          /\ FirstComponent(entries[e].key) = FirstComponent(entries[f].key)
          /\ FieldRank(FieldPart(WrittenKey(entries[e].key)))
               = FieldRank(FieldPart(WrittenKey(entries[f].key))))
         => \E i, j \in LiveElements(outFile) :
              /\ i < j
              /\ outFile.items[i].key = WrittenKey(entries[e].key)
              /\ outFile.items[j].key = WrittenKey(entries[f].key)
              /\ \A m \in LiveElements(outFile) :
                   outFile.items[m].key = WrittenKey(entries[f].key) => i < m

\* C22 witness: B.zz, B.aa and B.label were derived in that order; B.label was
\* written first, then B.zz, then B.aa.
C22_Witness ==
  /\ AfterCall
  /\ kind = "DefInjected"
  /\ Len(entries) = 3
  /\ entries[1].key = K_B_zz
  /\ \E i, j, m \in LiveElements(outFile) :
       /\ i < j /\ j < m
       /\ outFile.items[i].key = K_B_label
       /\ outFile.items[j].key = K_B_zz
       /\ outFile.items[m].key = K_B_aa

\* C25, as stated: the fresh entries having pairwise distinct keys, no two live
\* elements written by save_translations carry the same name.
C25_NoDuplicateLive ==
  (/\ AfterCall
   /\ kind = "DefInjected"
   /\ \A e, f \in DOMAIN entries : e # f => entries[e].key # entries[f].key) =>
    \A i, j \in LiveElements(outFile) :
      i # j => outFile.items[i].key # outFile.items[j].key

\* C27, as stated: the file save_translations wrote parses, and the existing
\* entries the next run reads from it are its live elements, each key with the
\* value written for it, the escaping undone.
C27_RoundTrip ==
  (AfterCall /\ kind = "DefInjected") =>
    /\ Parses(outFile)
    /\ DictKeys(ReadExistingDefInjected(outFile))
         = {outFile.items[i].key : i \in LiveElements(outFile)}
    /\ \A i \in LiveElements(outFile) :
         DictGet(ReadExistingDefInjected(outFile), outFile.items[i].key, <<>>)
           = Unescape(outFile.items[i].text)

\* C9, as stated: Generado is reported exactly when no output file existed
\* before the call.
C9_GeneratedIffNoFile ==
  runs >= 1 => (action = S_Generado <=> ~prevFile.exists)

(***************************************************************************)
(* Key path derivation on one element                                      *)
(***************************************************************************)

\* The number of children of the element that is derived.
MaxKids == 3

S_texPath == <<"t", "e", "x", "P", "a", "t", "h">>

\* A tag that holds both "texPath" and "label".
S_texPathLabel == S_texPath \o <<"L", "a", "b", "e", "l">>

S_parts == <<"p", "a", "r", "t", "s">>

\* The children an element is built from.
KidPool ==
  { Leaf(S_li, <<"r">>),
    Leaf(S_li, <<" ">>),
    Node(S_li, <<>>, <<Leaf(S_customLabel, <<"a", " ", "b">>)>>),
    Node(S_li, <<>>, <<Leaf(S_customLabel, <<"a", "_", "b", "!">>), Leaf(S_texPath, <<"p">>)>>),
    Node(S_li, <<>>, <<Leaf(S_def, <<"X">>), Leaf(S_label, <<"q">>)>>),
    Leaf(S_label, <<" ", "t", " ">>),
    Leaf(S_texPathLabel, <<"u">>),
    Leaf(S_defName, <<"D">>) }

BlacklistPool ==
  { <<>>,
    <<<<"x">>, <<"T", "E", "X", "P", "A", "T", "H">>>>,
    <<<<"L", "I">>>> }

WhitelistPool == { <<S_label>>, <<<<"N", "A", "M", "E">>, <<"L", "a", "B">>>> }

InitExtract ==
  /\ NoCopy
  /\ NoPaths
  /\ NoMerge
  /\ NoBatch
  /\ blacklisted_tags \in BlacklistPool
  /\ translatable_tags \in WhitelistPool
  /\ \E n \in 1..MaxKids : \E kids \in [1..n -> KidPool] :
       \E tag \in {S_rulesStrings, S_parts} : node = Node(tag, <<>>, kids)
  /\ current_path = <<"D", ".">> \o node.tag
  /\ steps = <<>>

\* extract_recursive(node, current_path, results): the loop over the children,
\* with the recursive calls.
ExtractRecursive ==
  /\ steps = <<>>
  /\ node.kids # <<>>
  /\ steps' = ChildSteps(node, current_path, 1, <<>>, 0, blacklisted_tags, translatable_tags)
  /\ UNCHANGED <<node, current_path, mergeVars, tagVars, pathVars, batchVars, copyVars>>

NextExtract == ExtractRecursive

SpecExtract == InitExtract /\ [][NextExtract]_vars

\* The tag holds a blacklist entry, letter case aside.
Blacklisted(tag) ==
  \E i \in DOMAIN blacklisted_tags :
    \E a \in 0..Len(tag) : \E b \in a..Len(tag) :
      Lower(SubSeq(tag, a + 1, b)) = Lower(blacklisted_tags[i])

\* C5: no entry is emitted for a child whose tag holds a blacklist entry as a
\* case-insensitive substring, be its tag whitelisted too, be it an li item of
\* a rulesStrings list.
C5_BlacklistWins ==
  steps # <<>> =>
    \A i \in DOMAIN node.kids :
      Blacklisted(node.kids[i].tag) =>
        /\ steps[i].emitted = <<>>
        /\ \A e \in DOMAIN FlatSteps(steps) :
             FlatSteps(steps)[e].key # current_path \o Dot(steps[i].part)

\* C5 witness: under rulesStrings, with "LI" blacklisted, an li leaf with text
\* was passed over while a label sibling was emitted.
C5_Witness ==
  /\ steps # <<>>
  /\ node.tag = S_rulesStrings
  /\ blacklisted_tags = <<<<"L", "I">>>>
  /\ \E i, j \in DOMAIN node.kids :
       /\ node.kids[i] = Leaf(S_li, <<"r">>)
       /\ steps[i].emitted = <<>>
       /\ node.kids[j].tag = S_label
       /\ steps[j].emitted # <<>>

\* The tag holds a whitelist entry, letter case aside.
Whitelisted(tag) ==
  \E i \in DOMAIN translatable_tags :
    \E a \in 0..Len(tag) : \E b \in a..Len(tag) :
      Lower(SubSeq(tag, a + 1, b)) = Lower(translatable_tags[i])

\* Child i has no child elements and its text is not blank.
TextLeaf(i) ==
  /\ node.kids[i].kids = <<>>
  /\ \E c \in DOMAIN node.kids[i].text : node.kids[i].text[c] # " "

\* Child i is emitted at its path with its text trimmed, or not at all, as
\* its tag and its parent decide.
ClassifiedByTag(i) ==
  IF /\ TextLeaf(i)
     /\ ~Blacklisted(node.kids[i].tag)
     /\ \/ Whitelisted(node.kids[i].tag)
        \/ node.tag = S_rulesStrings /\ node.kids[i].tag = S_li
  THEN steps[i].emitted
         = <<Entry(current_path \o <<".">> \o steps[i].part, Strip(node.kids[i].text))>>
  ELSE steps[i].emitted = <<>>

\* C18, as stated: every child is classified by its tag and its parent.
C18_ClassifiedAll ==
  steps # <<>> => \A i \in DOMAIN node.kids : ClassifiedByTag(i)

\* C18, amended: every child other than the defName child is emitted exactly
\* when it has no child elements, its text is not blank, its tag holds no
\* blacklist entry and its tag holds a whitelist entry or it is an li child of
\* a rulesStrings node; the defName child is never emitted, whatever the
\* whitelist holds.
C18_ClassifiedButDefName ==
  steps # <<>> =>
    \A i \in DOMAIN node.kids :
      IF node.kids[i].tag = S_defName THEN steps[i].emitted = <<>> /\ steps[i].sub = <<>>
      ELSE ClassifiedByTag(i)

\* C18 witness: under rulesStrings with "NAME" whitelisted and nothing
\* blacklisted, the li item was emitted, the padded label was emitted trimmed,
\* and the defName child was passed over.
C18_Witness ==
  /\ steps # <<>>
  /\ node.tag = S_rulesStrings
  /\ blacklisted_tags = <<>>
  /\ translatable_tags[1] = <<"N", "A", "M", "E">>
  /\ Len(node.kids) = 3
  /\ node.kids[1] = Leaf(S_li, <<"r">>)
  /\ steps[1].emitted = <<Entry(current_path \o <<".", "0">>, <<"r">>)>>
  /\ node.kids[2] = Leaf(S_label, <<" ", "t", " ">>)
  /\ steps[2].emitted = <<Entry(current_path \o <<".">> \o S_label, <<"t">>)>>
  /\ node.kids[3].tag = S_defName
  /\ steps[3].emitted = <<>>

\* The li children of the element that resolve to the display name of child i.
SameName(i) ==
  {j \in DOMAIN node.kids :
     node.kids[j].tag = S_li /\ get_li_name(node.kids[j]) = get_li_name(node.kids[i])}

\* The keys emitted for child i: its own and those of its subtree.
KeysOf(i) ==
  {steps[i].emitted[e].key : e \in DOMAIN steps[i].emitted}
    \cup {steps[i].sub[e].key : e \in DOMAIN steps[i].sub}

\* C6: the li children sharing a display name get the parts name-0, name-1, ...
\* in source order, counted per name, and the keys emitted for them are
\* pairwise distinct; a name carried by one li child alone is the part itself.
C6_Disambiguation ==
  steps # <<>> =>
    \A i \in DOMAIN node.kids :
      (node.kids[i].tag = S_li /\ get_li_name(node.kids[i]) # <<>>) =>
        /\ steps[i].part =
             (IF Cardinality(SameName(i)) > 1
              THEN get_li_name(node.kids[i]) \o <<"-">>
                     \o Digits(Cardinality({j \in SameName(i) : j < i}))
              ELSE get_li_name(node.kids[i]))
        /\ \A j \in SameName(i) \ {i} :
             /\ steps[j].part # steps[i].part
             /\ KeysOf(i) \cap KeysOf(j) = {}

\* C6 witness: two li children named a_b (from "a b" and "a_b!") around an li
\* named X: parts a_b-0, X, a_b-1, each with an emitted key.
C6_Witness ==
  /\ Len(steps) = 3
  /\ steps[1].part = <<"a", "_", "b", "-", "0">>
  /\ steps[2].part = <<"X">>
  /\ steps[3].part = <<"a", "_", "b", "-", "1">>
  /\ \A i \in 1..3 : KeysOf(i) # {}

\* The li children of the element before child i.
LiBefore(i) == {j \in 1..(i - 1) : node.kids[j].tag = S_li}

\* Child i is an li item with no usable customLabel and no usable def.
Unnamed(i) ==
  /\ node.kids[i].tag = S_li
  /\ \/ ~HasChild(node.kids[i], S_customLabel)
     \/ SafeChars(Replace(Strip(FirstChild(node.kids[i], S_customLabel).text),
                           <<" ">>, <<"_">>)) = <<>>
  /\ \/ ~HasChild(node.kids[i], S_def)
     \/ Strip(FirstChild(node.kids[i], S_def).text) = <<>>

\* C23: an li child with no display name gets as its part the decimal count of
\* the li children before it under the same parent, named ones included.
C23_PositionalFallback ==
  steps # <<>> =>
    \A i \in DOMAIN node.kids :
      Unnamed(i) => steps[i].part = Digits(Cardinality(LiBefore(i)))

\* C23 witness: two consecutive unnamed li items, the only li children of their
\* parent, got the parts 0 and 1.
C23_Witness ==
  /\ steps # <<>>
  /\ \E i \in DOMAIN node.kids :
       /\ i + 1 \in DOMAIN node.kids
       /\ Unnamed(i) /\ Unnamed(i + 1)
       /\ \A j \in DOMAIN node.kids : node.kids[j].tag = S_li => j \in {i, i + 1}
       /\ steps[i].part = <<"0">>
       /\ steps[i + 1].part = <<"1">>

\* C24, as stated: the keys emitted by one call are pairwise distinct.
C24_KeysDistinct ==
  steps # <<>> =>
    \A e, f \in DOMAIN FlatSteps(steps) :
      e # f => FlatSteps(steps)[e].key # FlatSteps(steps)[f].key

(***************************************************************************)
(* run_extraction over the source files of a mod                           *)
(***************************************************************************)

\* The number of source files of the mod.
MaxFiles == 3

N_a == <<"a", ".", "x", "m", "l">>

N_b == <<"b", ".", "x", "m", "l">>

N_c == <<"c", ".", "x", "m", "l">>

N_k == <<"k", ".", "x", "m", "l">>

S_Defs == <<"D", "e", "f", "s">>

S_LanguageData == <<"L", "a", "n", "g", "u", "a", "g", "e", "D", "a", "t", "a">>

\* <Defs><ThingDef><defName>A</defName><label>s</label></ThingDef></Defs>
DefsRoot(def_name, text) ==
  Node(S_Defs, <<>>,
       <<Node(T_ThingDef, <<>>, <<Leaf(S_defName, def_name), Leaf(S_label, text)>>)>>)

\* Source files: well-formed ones, ones that do not parse, one whose output
\* cannot be written, one without any definition name, and a second a.xml (the
\* file of that name in the Defs folder of another version) with another
\* definition.
SourceFilePool ==
  { SourceFile("Defs", N_a, TRUE, DefsRoot(<<"A">>, <<"s">>), TRUE),
    SourceFile("Defs", N_b, FALSE, Leaf(<<>>, <<>>), TRUE),
    SourceFile("Defs", N_c, TRUE, DefsRoot(<<"C">>, <<"t">>), FALSE),
    SourceFile("Defs", N_b, TRUE, DefsRoot(<<>>, <<"u">>), TRUE),
    SourceFile("Defs", N_a, TRUE, DefsRoot(<<"E">>, <<"v">>), TRUE),
    SourceFile("Keyed", N_k, TRUE, Node(S_LanguageData, <<>>, <<Leaf(<<"H", "i">>, <<"h">>)>>), TRUE),
    SourceFile("Keyed", N_b, FALSE, Leaf(<<>>, <<>>), TRUE) }

\* The output folder before the run: empty, or left by an earlier run.
OutputsPool ==
  { <<>>,
    << <<<<T_ThingDef, N_a>>, FileOf(<<ElemItem(K_A_label, <<"x">>)>>)>>,
       <<<<T_ThingDef, N_b>>, FileOf(<<ElemItem(<<"B", ".", "l", "a", "b", "e", "l">>, <<"y">>)>>)>>,
       <<<<S_Keyed, N_b>>, FileOf(<<ElemItem(<<"H", "i">>, <<"z">>)>>)>> >> }

\* The definition files are walked first, then the keyed files.
DefsFiles == SelectSeq(sourceFiles, LAMBDA f : f.kind = "Defs")

KeyedFiles == SelectSeq(sourceFiles, LAMBDA f : f.kind = "Keyed")

InitBatch ==
  /\ NoCopy
  /\ NoPaths
  /\ NoMerge
  /\ NoExtraction
  /\ blacklisted_tags = <<S_texPath>>
  /\ translatable_tags = <<S_label>>
  /\ \E n \in 1..MaxFiles : sourceFiles \in [1..n -> SourceFilePool]
  /\ sourceFiles = DefsFiles \o KeyedFiles
  /\ outputs \in OutputsPool
  /\ act_clean \in BOOLEAN
  /\ status = "idle"
  /\ pos = 0
  /\ pending = <<>>
  /\ log = <<>>

\* run_extraction up to its first loop: the log is cleared and, with the clean
\* option, an existing output folder is removed.
StartExtraction ==
  /\ status = "idle"
  /\ outputs' = IF act_clean THEN <<>> ELSE outputs
  /\ log' = <<>>
  /\ status' = "defs"
  /\ pos' = 1
  /\ pending' = <<>>
  /\ UNCHANGED <<sourceFiles, act_clean, mergeVars, tagVars, pathVars, extractVars, copyVars>>

\* What a call of process_file or process_keyed_file does to the run: an
\* exception leaves the loops for the handler of run_extraction.
AfterFile(r) ==
  /\ outputs' = r.outputs
  /\ IF r.raised
     THEN /\ status' = "aborted"
          /\ log' = log \o r.logged \o <<Line(S_ErrorCritico, <<>>, <<>>)>>
          /\ UNCHANGED <<pos, pending>>
     ELSE /\ status' = status
          /\ log' = log \o r.logged
          /\ pos' = pos + 1
          /\ pending' = pending \o r.results
  /\ UNCHANGED <<sourceFiles, act_clean, mergeVars, tagVars, pathVars, extractVars, copyVars>>

\* The loop over the definition files: process_file on the next one.
ProcessDefsFile ==
  /\ status = "defs"
  /\ pos <= Len(DefsFiles)
  /\ AfterFile(process_file(DefsFiles[pos], outputs,
                            load_single_xml_translations(localFile),
                            load_archive_translations(archiveFiles), EnglishTranslations,
                            recover_implicit, blacklisted_tags, translatable_tags))

\* The end of the loop over the definition files: the results are logged.
EndDefs ==
  /\ status = "defs"
  /\ pos > Len(DefsFiles)
  /\ log' = log \o pending
  /\ status' = "keyed"
  /\ pos' = 1
  /\ pending' = <<>>
  /\ UNCHANGED <<sourceFiles, outputs, act_clean, mergeVars, tagVars, pathVars, extractVars, copyVars>>

\* The loop over the keyed files: process_keyed_file on the next one.
ProcessKeyedFile ==
  /\ status = "keyed"
  /\ pos <= Len(KeyedFiles)
  /\ AfterFile(process_keyed_file(KeyedFiles[pos], outputs,
                                  load_single_xml_translations(localFile),
                                  load_archive_translations(archiveFiles)))

\* The end of run_extraction: the keyed results are logged.
EndKeyed ==
  /\ status = "keyed"
  /\ pos > Len(KeyedFiles)
  /\ log' = log \o pending
  /\ status' = "done"
  /\ pending' = <<>>
  /\ UNCHANGED <<sourceFiles, outputs, act_clean, pos, mergeVars, tagVars, pathVars, extractVars, copyVars>>

NextBatch == StartExtraction \/ ProcessDefsFile \/ EndDefs \/ ProcessKeyedFile \/ EndKeyed

SpecBatch == InitBatch /\ [][NextBatch]_vars

\* The source file the loop is at, when it is at one.
AtFile ==
  \/ status = "defs" /\ pos <= Len(DefsFiles)
  \/ status = "keyed" /\ pos <= Len(KeyedFiles)

CurrentFile == IF status = "defs" THEN DefsFiles[pos] ELSE KeyedFiles[pos]

\* C10: the step on a source file that does not parse logs the failure, leaves
\* every output file as it is, collects no record and moves on to the next
\* source file without leaving the run.
C10_ParseFailureSkipped ==
  [][(AtFile /\ ~CurrentFile.well_formed) =>
       /\ outputs' = outputs
       /\ pending' = pending
       /\ status' = status
       /\ pos' = pos + 1
       /\ Len(log') = Len(log) + 1
       /\ log'[Len(log')][1] = S_ErrorAlParsear
       /\ log'[Len(log')][3] = CurrentFile.name]_vars

\* C10 witness: the run is over, a file that did not parse was logged, the
\* output left for it by an earlier run stands, and a file after it was written.
C10_Witness ==
  /\ status = "done"
  /\ ~act_clean
  /\ Len(sourceFiles) = 3
  /\ ~sourceFiles[1].well_formed
  /\ log[1] = Line(S_ErrorAlParsear, <<>>, N_b)
  /\ DictGet(outputs, <<T_ThingDef, N_b>>, NoFile)
       = FileOf(<<ElemItem(<<"B", ".", "l", "a", "b", "e", "l">>, <<"y">>)>>)
  /\ \E i \in DOMAIN log : log[i] = Line(S_Actualizado, T_ThingDef, N_a)
  /\ \E i \in DOMAIN log : log[i] = Line(S_Generado, S_Keyed, N_k)

\* C11, as stated: the step on a source file whose output cannot be written
\* leaves the run going and moves on to the next source file.
C11_WriteFailureSkipped ==
  [][(AtFile /\ CurrentFile.well_formed /\ ~CurrentFile.writable) =>
       /\ status' = status
       /\ pos' = pos + 1]_vars

\* The keys derived from a definition file for a definition type.
DerivedKeys(file, type) ==
  EntryKeys(DictGet(TranslationsByType(<<>>, file.root.kids, blacklisted_tags,
                                       translatable_tags),
                    type, <<>>))

\* C26, as stated: once the run is over, an output file that several
\* definition files of the run were written to holds a live element for every
\* key derived from any of them.
C26_Consolidated ==
  status = "done" =>
    \A f, g \in DOMAIN sourceFiles :
      (/\ f # g
       /\ sourceFiles[f].kind = "Defs" /\ sourceFiles[g].kind = "Defs"
       /\ sourceFiles[f].well_formed /\ sourceFiles[g].well_formed
       /\ sourceFiles[f].name = sourceFiles[g].name) =>
        \A k \in DerivedKeys(sourceFiles[f], T_ThingDef) :
          ElemPositions(DictGet(outputs, <<T_ThingDef, sourceFiles[f].name>>, NoFile), k) # {}

(***************************************************************************)
(* Output path of a discovered directory                                   *)
(***************************************************************************)

S_Todas == <<"T", "o", "d", "a", "s">>

S_Base == <<"B", "a", "s", "e">>

S_mods == <<"m", "o", "d", "s">>

\* A path is the sequence of its segments; Path(".") has none.
\* str(path): the segments joined by "/", "." for the empty path.
RECURSIVE PathStr(_)
PathStr(parts) ==
  IF parts = <<>> THEN <<".">>
  ELSE IF Len(parts) = 1 THEN parts[1]
  ELSE parts[1] \o <<"/">> \o PathStr(Tail(parts))

IsDigit(c) == CodePoint[c] >= 48 /\ CodePoint[c] <= 57

\* re.match(r'^\d+\.\d+$', segment)
IsVersionSegment(segment) ==
  \E d \in 2..(Len(segment) - 1) :
    /\ segment[d] = "."
    /\ \A i \in DOMAIN segment : i # d => IsDigit(segment[i])

\* A merge that puts every source path whole under the target version.
MergedPath_Nested(rel_path, version) ==
  (IF version # S_Base THEN <<version>> ELSE <<>>) \o rel_path

\* output_rel_path of the merge branch.
MergedPath(rel_path, version) ==
  LET target_path == IF version # S_Base THEN <<version>> ELSE <<>>
  IN  IF PathStr(rel_path) = <<".">> THEN target_path
      ELSE IF IsVersionSegment(rel_path[1]) THEN target_path \o Tail(rel_path)
      ELSE target_path \o rel_path

\* A filter that lets every directory through.
ShouldProcess_All(rel_path, version) == TRUE

\* should_process of the branch without merge.
ShouldProcess(rel_path, version) ==
  LET is_base == PathStr(rel_path) = <<".">>
  IN  /\ ~(version = S_Base /\ ~is_base)
      /\ ~(version # S_Base /\ PathStr(rel_path) # version)

\* mods_idx, counted from 1; 0 when no segment is "mods".
ModsIndex(parts_out) ==
  LET hits == {i \in DOMAIN parts_out : Lower(parts_out[i]) = S_mods}
  IN  IF hits = {} THEN 0 ELSE CHOOSE i \in hits : \A j \in hits : i <= j

\* output_rel_path after the simplify_mods block.
Simplified(parts_out) ==
  LET mods_idx == ModsIndex(parts_out)
  IN  IF mods_idx # 0 /\ Len(parts_out) > mods_idx
      THEN SubSeq(parts_out, 1, mods_idx - 1) \o SubSeq(parts_out, mods_idx + 2, Len(parts_out))
      ELSE parts_out

\* A loop body that applies the version filter to "Todas" as to any version.
ResolveDirectory_NoTodas(rel_path, version, merge, simplify) ==
  LET should_process == merge \/ ShouldProcess(rel_path, version)
      output_rel_path == IF merge THEN MergedPath(rel_path, version) ELSE rel_path
  IN  [rel_path |-> rel_path,
       should_process |-> should_process,
       output_rel_path |-> IF should_process /\ simplify THEN Simplified(output_rel_path)
                           ELSE output_rel_path]

\* The body of the loop over the discovered directories, up to the call on
\* its files: whether the directory is processed and its output path.
ResolveDirectory(rel_path, version, merge, simplify) ==
  LET should_process == (version # S_Todas /\ ~merge) => ShouldProcess(rel_path, version)
      output_rel_path == IF version # S_Todas /\ merge THEN MergedPath(rel_path, version)
                         ELSE rel_path
  IN  [rel_path |-> rel_path,
       should_process |-> should_process,
       output_rel_path |-> IF should_process /\ simplify THEN Simplified(output_rel_path)
                           ELSE output_rel_path]

\* The number of directories discovered under the mod.
MaxDirs == 2

V_15 == <<"1", ".", "5">>

V_14 == <<"1", ".", "4">>

D_Mods == <<"M", "o", "d", "s">>

D_X == <<"X">>

\* Relative paths of the parents of discovered directories.
RelPathPool ==
  { <<>>,
    <<V_15>>,
    <<V_14>>,
    <<V_14, D_Mods, D_X>>,
    <<D_Mods, D_X>>,
    <<<<"M", "O", "D", "S">>, D_X, S_mods, <<"Y">>>>,
    <<V_15, S_mods>>,
    <<<<"v", "1", ".", "5">>, D_X>> }

VersionPool == {S_Todas, S_Base, V_15}

Directory(dir_kind, rel_path) == [kind |-> dir_kind, rel_path |-> rel_path]

DirectoryPool == {Directory(k, r) : k \in {"Defs", "Keyed"}, r \in RelPathPool}

\* The Defs directories come first, sorted by their path; the Keyed ones follow.
DiscoveryOrder(dirs) ==
  \A i, j \in DOMAIN dirs :
    i < j =>
      /\ dirs[i] # dirs[j]
      /\ ~(dirs[i].kind = "Keyed" /\ dirs[j].kind = "Defs")
      /\ (dirs[i].kind = "Defs" /\ dirs[j].kind = "Defs")
           => StrLess(PathStr(dirs[i].rel_path), PathStr(dirs[j].rel_path))

InitPaths ==
  /\ NoCopy
  /\ NoMerge
  /\ NoTags
  /\ NoExtraction
  /\ NoBatch
  /\ target_version \in VersionPool
  /\ merge_versions \in BOOLEAN
  /\ simplify_mods \in BOOLEAN
  /\ \E n \in 1..MaxDirs : directories \in [1..n -> DirectoryPool]
  /\ DiscoveryOrder(directories)
  /\ dir_pos = 1
  /\ resolved = <<>>

\* What one pass of either loop does with the directory it is at.
VisitDirectory ==
  /\ resolved' = Append(resolved,
                        ResolveDirectory(directories[dir_pos].rel_path, target_version,
                                         merge_versions, simplify_mods))
  /\ dir_pos' = dir_pos + 1
  /\ UNCHANGED <<target_version, merge_versions, simplify_mods, directories,
                 mergeVars, tagVars, extractVars, batchVars, copyVars>>

\* The loop over defs_directories.
VisitDefsDirectory ==
  /\ dir_pos <= Len(directories)
  /\ directories[dir_pos].kind = "Defs"
  /\ VisitDirectory

\* The loop over keyed_directories.
VisitKeyedDirectory ==
  /\ dir_pos <= Len(directories)
  /\ directories[dir_pos].kind = "Keyed"
  /\ VisitDirectory

NextPaths == VisitDefsDirectory \/ VisitKeyedDirectory

SpecPaths == InitPaths /\ [][NextPaths]_vars

\* The directories visited so far.
Visited == DOMAIN resolved

\* C12: with a version other than "Todas" and merge off, a directory is
\* processed exactly when its relative path is the one segment V, or, for
\* V = "Base", the empty path; a directory that is not processed gets no output
\* path of its own.
C12_SingleVersionFilter ==
  (target_version # S_Todas /\ ~merge_versions) =>
    \A i \in Visited :
      /\ resolved[i].should_process <=>
           directories[i].rel_path = (IF target_version = S_Base THEN <<>>
                                      ELSE <<target_version>>)
      /\ ~resolved[i].should_process => resolved[i].output_rel_path = directories[i].rel_path

\* C12 witness: with version 1.5 and merge off the directory 1.5 was taken and
\* the base directory was passed over.
C12_Witness ==
  /\ target_version = V_15
  /\ ~merge_versions
  /\ \E i, j \in Visited :
       /\ directories[i].rel_path = <<V_15>> /\ resolved[i].should_process
       /\ directories[j].rel_path = <<>> /\ ~resolved[j].should_process

\* The segment is digits, a dot, digits.
LooksLikeVersion(segment) ==
  /\ Len(SplitDot(segment)) = 2
  /\ \A k \in 1..2 :
       /\ SplitDot(segment)[k] # <<>>
       /\ \A c \in DOMAIN SplitDot(segment)[k] :
            SplitDot(segment)[k][c] \in {"0", "1", "2", "3", "4", "5", "6", "7", "8", "9"}

\* The output path the merge gives a source path, before any flattening.
MergeTarget(rel_path) ==
  LET under == IF target_version = S_Base THEN <<>> ELSE <<target_version>>
  IN  IF rel_path = <<>> THEN under
      ELSE IF LooksLikeVersion(rel_path[1])
           THEN under \o SubSeq(rel_path, 2, Len(rel_path))
      ELSE under \o rel_path

\* C13: with a version other than "Todas" and merge on, every directory is
\* processed, to V for the base source, to V and the segments after the first
\* when the first is a version number, to V and the whole path otherwise
\* (flattened afterwards when that option is on).
C13_MergePath ==
  (target_version # S_Todas /\ merge_versions) =>
    \A i \in Visited :
      /\ resolved[i].should_process
      /\ resolved[i].output_rel_path =
           (IF simplify_mods THEN Simplified(MergeTarget(directories[i].rel_path))
            ELSE MergeTarget(directories[i].rel_path))

\* C13 witness: merging into 1.5 without flattening sent 1.4/Mods/X to
\* 1.5/Mods/X and v1.5/X to 1.5/v1.5/X.
C13_Witness ==
  /\ target_version = V_15
  /\ merge_versions
  /\ ~simplify_mods
  /\ \E i, j \in Visited :
       /\ directories[i].rel_path = <<V_14, D_Mods, D_X>>
       /\ resolved[i].output_rel_path = <<V_15, D_Mods, D_X>>
       /\ directories[j].rel_path[1] = <<"v", "1", ".", "5">>
       /\ resolved[j].output_rel_path = <<V_15, <<"v", "1", ".", "5">>, D_X>>

\* The path before the flattening block.
BeforeFlattening(i) ==
  IF target_version # S_Todas /\ merge_versions THEN MergeTarget(directories[i].rel_path)
  ELSE directories[i].rel_path

\* The path with every "mods" segment that has a successor removed together
\* with that successor.
RECURSIVE WithoutWrappers(_)
WithoutWrappers(path) ==
  IF Len(path) < 2 THEN path
  ELSE IF Lower(path[1]) = S_mods THEN WithoutWrappers(SubSeq(path, 3, Len(path)))
  ELSE <<path[1]>> \o WithoutWrappers(Tail(path))

\* C14, as stated: with flattening on every wrapper segment goes with its
\* successor; with flattening off the path stays.
C14_AllWrappersRemoved ==
  \A i \in Visited :
    resolved[i].should_process =>
      resolved[i].output_rel_path =
        (IF simplify_mods THEN WithoutWrappers(BeforeFlattening(i)) ELSE BeforeFlattening(i))

\* C15: with "Todas" every directory is processed and its output path is its
\* source path, merge on or off (flattened afterwards when that option is on).
C15_NoFilter ==
  target_version = S_Todas =>
    \A i \in Visited :
      /\ resolved[i].should_process
      /\ resolved[i].output_rel_path =
           (IF simplify_mods THEN Simplified(directories[i].rel_path)
            ELSE directories[i].rel_path)

\* C15 witness: with "Todas" and merge on, the base directory went to the
\* output root and 1.4 to 1.4.
C15_Witness ==
  /\ target_version = S_Todas
  /\ merge_versions
  /\ \E i, j \in Visited :
       /\ directories[i].rel_path = <<>>
       /\ resolved[i].should_process /\ resolved[i].output_rel_path = <<>>
       /\ directories[j].rel_path = <<V_14>>
       /\ resolved[j].should_process /\ resolved[j].output_rel_path = <<V_14>>

(***************************************************************************)
(* CopiadorThread: the pool of _procesar_mod calls                         *)
(***************************************************************************)

\* ThreadPoolExecutor(max_workers=4)
max_workers == 4

\* The number of mods found under the source folder.
MaxMods == 2

\* What the loop body does with a source file before it counts it: "written"
\* when a destination file is written (copied as it is, or parsed and written
\* without comments, or copied after a ParseError), "nothing" when the
\* comment-stripping step fails with another exception, which is logged, and
\* "raised" when os.makedirs raises out of the loop.
Outcome(file, eliminar) ==
  CASE file = "unwritable" -> "raised"
    [] eliminar /\ file = "undecodable" -> "nothing"
    [] OTHER -> "written"

\* int((count / total_mods) * 100); the float quotient gives the integer
\* quotient for every total up to four.
Percent(count, total_mods) == (count * 100) \div total_mods

\* A lock that any thread may take at any time.
Acquirable_Always(l) == TRUE

\* with self._lock: the lock is taken when no thread holds it.
Acquirable(l) == l = 0

\* The .xml files of the language folder of a mod: none, plain ones, one that
\* is not well-formed, one whose bytes decode neither as UTF-8 nor as UTF-16,
\* one whose destination folder cannot be created.
ModPool ==
  { <<>>,
    <<"undecodable", "plain">>,
    <<"malformed">>,
    <<"plain", "unwritable">> }

\* The calls a worker thread is running.
Running == {k \in DOMAIN mods : pc[k] \notin {"queued", "done"}}

InitCopy ==
  /\ NoMerge
  /\ NoTags
  /\ NoExtraction
  /\ NoBatch
  /\ NoPaths
  /\ \E n \in 1..MaxMods : mods \in [1..n -> ModPool]
  /\ eliminar_comentarios \in BOOLEAN
  /\ pc = [m \in DOMAIN mods |-> "queued"]
  /\ file_index = [m \in DOMAIN mods |-> 0]
  /\ archivos_actual = [m \in DOMAIN mods |-> 0]
  /\ progreso_general = [m \in DOMAIN mods |-> 0]
  /\ archivos_procesados_local = [m \in DOMAIN mods |-> 0]
  /\ lock = 0
  /\ mods_procesados_count = 0
  /\ archivos_copiados = 0
  /\ written = {}
  /\ progreso = <<>>
  /\ archivos_count = <<>>
  /\ terminado = <<>>

\* A free worker takes the next submitted call; the call lists the .xml files
\* of the mod and goes to the loop, or to the empty path.
StartMod(m) ==
  /\ pc[m] = "queued"
  /\ \A k \in 1..(m - 1) : pc[k] # "queued"
  /\ Cardinality(Running) < max_workers
  /\ pc' = [pc EXCEPT ![m] = IF mods[m] = <<>> THEN "mod_lock" ELSE "copy"]
  /\ file_index' = [file_index EXCEPT ![m] = 1]
  /\ UNCHANGED <<mods, eliminar_comentarios, archivos_actual, progreso_general,
                 archivos_procesados_local, lock, mods_procesados_count,
                 archivos_copiados, written, progreso, archivos_count, terminado,
                 mergeVars, tagVars, extractVars, batchVars, pathVars>>

\* The loop body up to the counters: the destination file is written or not;
\* an exception outside the inner try leaves the loop for the handler of the
\* call.
CopyFile(m) ==
  /\ pc[m] = "copy"
  /\ LET outcome == Outcome(mods[m][file_index[m]], eliminar_comentarios)
     IN  /\ written' = IF outcome = "written"
                       THEN written \cup {<<m, file_index[m]>>}
                       ELSE written
         /\ pc' = [pc EXCEPT ![m] = IF outcome = "raised" THEN "mod_lock" ELSE "file_lock"]
  /\ UNCHANGED <<mods, eliminar_comentarios, file_index, archivos_actual,
                 progreso_general, archivos_procesados_local, lock,
                 mods_procesados_count, archivos_copiados, progreso, archivos_count,
                 terminado, mergeVars, tagVars, extractVars, batchVars, pathVars>>

\* with self._lock: self.archivos_copiados += 1, the read.
LockFile(m) ==
  /\ pc[m] = "file_lock"
  /\ Acquirable(lock)
  /\ lock' = m
  /\ archivos_actual' = [archivos_actual EXCEPT ![m] = archivos_copiados]
  /\ pc' = [pc EXCEPT ![m] = "file_write"]
  /\ UNCHANGED <<mods, eliminar_comentarios, file_index, progreso_general,
                 archivos_procesados_local, mods_procesados_count, archivos_copiados,
                 written, progreso, archivos_count, terminado,
                 mergeVars, tagVars, extractVars, batchVars, pathVars>>

\* self.archivos_copiados += 1, the write; archivos_actual takes the new value,
\* the lock is released and the local count goes up.
WriteFile(m) ==
  /\ pc[m] = "file_write"
  /\ archivos_copiados' = archivos_actual[m] + 1
  /\ archivos_actual' = [archivos_actual EXCEPT ![m] = archivos_actual[m] + 1]
  /\ lock' = 0
  /\ archivos_procesados_local' =
       [archivos_procesados_local EXCEPT ![m] = archivos_procesados_local[m] + 1]
  /\ pc' = [pc EXCEPT ![m] = "file_emit"]
  /\ UNCHANGED <<mods, eliminar_comentarios, file_index, progreso_general,
                 mods_procesados_count, written, progreso, archivos_count, terminado,
                 mergeVars, tagVars, extractVars, batchVars, pathVars>>

\* self.archivos_count.emit(archivos_actual), then the next file or the end of
\* the loop.
EmitFile(m) ==
  /\ pc[m] = "file_emit"
  /\ archivos_count' = Append(archivos_count, archivos_actual[m])
  /\ IF file_index[m] < Len(mods[m])
     THEN /\ file_index' = [file_index EXCEPT ![m] = file_index[m] + 1]
          /\ pc' = [pc EXCEPT ![m] = "copy"]
     ELSE /\ file_index' = file_index
          /\ pc' = [pc EXCEPT ![m] = "mod_lock"]
  /\ UNCHANGED <<mods, eliminar_comentarios, archivos_actual, progreso_general,
                 archivos_procesados_local, lock, mods_procesados_count,
                 archivos_copiados, written, progreso, terminado,
                 mergeVars, tagVars, extractVars, batchVars, pathVars>>

\* with self._lock: self._mods_procesados_count += 1, the read; on the empty
\* path, after the loop, and in the handler of the call.
LockMod(m) ==
  /\ pc[m] = "mod_lock"
  /\ Acquirable(lock)
  /\ lock' = m
  /\ progreso_general' = [progreso_general EXCEPT ![m] = mods_procesados_count]
  /\ pc' = [pc EXCEPT ![m] = "mod_write"]
  /\ UNCHANGED <<mods, eliminar_comentarios, file_index, archivos_actual,
                 archivos_procesados_local, mods_procesados_count, archivos_copiados,
                 written, progreso, archivos_count, terminado,
                 mergeVars, tagVars, extractVars, batchVars, pathVars>>

\* self._mods_procesados_count += 1, the write; progreso_general is computed
\* and the lock is released.
WriteMod(m) ==
  /\ pc[m] = "mod_write"
  /\ mods_procesados_count' = progreso_general[m] + 1
  /\ progreso_general' =
       [progreso_general EXCEPT ![m] = Percent(progreso_general[m] + 1, Len(mods))]
  /\ lock' = 0
  /\ pc' = [pc EXCEPT ![m] = "mod_emit"]
  /\ UNCHANGED <<mods, eliminar_comentarios, file_index, archivos_actual,
                 archivos_procesados_local, archivos_copiados, written, progreso,
                 archivos_count, terminado,
                 mergeVars, tagVars, extractVars, batchVars, pathVars>>

\* self.progreso.emit(progreso_general); the call returns.
EmitMod(m) ==
  /\ pc[m] = "mod_emit"
  /\ progreso' = Append(progreso, progreso_general[m])
  /\ pc' = [pc EXCEPT ![m] = "done"]
  /\ UNCHANGED <<mods, eliminar_comentarios, file_index, archivos_actual,
                 progreso_general, archivos_procesados_local, lock,
                 mods_procesados_count, archivos_copiados, written, archivos_count,
                 terminado, mergeVars, tagVars, extractVars, batchVars, pathVars>>

\* Every call has returned.
PoolFinished == \A m \in DOMAIN mods : pc[m] = "done"

\* run, after the pool: self.terminado.emit(self.archivos_copiados).
Finish ==
  /\ PoolFinished
  /\ terminado = <<>>
  /\ terminado' = <<archivos_copiados>>
  /\ UNCHANGED <<mods, eliminar_comentarios, pc, file_index, archivos_actual,
                 progreso_general, archivos_procesados_local, lock,
                 mods_procesados_count, archivos_copiados, written, progreso,
                 archivos_count, mergeVars, tagVars, extractVars, batchVars, pathVars>>

NextCopy ==
  \/ \E m \in DOMAIN mods :
       \/ StartMod(m)
       \/ CopyFile(m)
       \/ LockFile(m)
       \/ WriteFile(m)
       \/ EmitFile(m)
       \/ LockMod(m)
       \/ WriteMod(m)
       \/ EmitMod(m)
  \/ Finish

SpecCopy == InitCopy /\ [][NextCopy]_vars

\* The loop passes completed by the calls on the mods 1..n.
RECURSIVE PassesCompleted(_)
PassesCompleted(n) ==
  IF n = 0 THEN 0 ELSE archivos_procesados_local[n] + PassesCompleted(n - 1)

\* C28: whatever the interleaving, the mod counter equals the number of calls
\* that have passed their increment, be it on the empty path, after the loop or
\* in the handler, and the file counter equals the number of loop passes
\* completed; when the pool has finished the mod counter equals the number of
\* mods submitted.
C28_NoLostUpdates ==
  /\ mods_procesados_count
       = Cardinality({m \in DOMAIN mods : pc[m] \in {"mod_emit", "done"}})
  /\ archivos_copiados = PassesCompleted(Len(mods))
  /\ PoolFinished => mods_procesados_count = Len(mods)

\* C28 witness: the pool has finished two mods, one of them on the handler's
\* path after a first file, the other after its loop, and the file counter
\* reached 3 with the calls taking turns.
C28_Witness ==
  /\ PoolFinished
  /\ Len(mods) = 2
  /\ mods[1] = <<"plain", "unwritable">>
  /\ mods[2] = <<"undecodable", "plain">>
  /\ mods_procesados_count = 2
  /\ archivos_copiados = 3
  /\ archivos_count = <<1, 2, 3>>
  /\ archivos_procesados_local = <<1, 2>>
  /\ progreso = <<50, 100>>

\* C29, as stated: the values emitted on progreso and on archivos_count never
\* go down, and the last progreso value of a finished pool is 100.
C29_ProgressInOrder ==
  /\ \A i \in 1..(Len(progreso) - 1) : progreso[i] <= progreso[i + 1]
  /\ \A i \in 1..(Len(archivos_count) - 1) : archivos_count[i] <= archivos_count[i + 1]
  /\ PoolFinished => progreso[Len(progreso)] = 100

\* C30, as stated: the total reported at completion is at most the number of
\* source files a destination file was written for.
C30_TruthfulCount ==
  terminado # <<>> => terminado[1] <= Cardinality(written)

=============================================================================
